---- MODULE Spec2Model ----
(***************************************************************************)
(* A model of the device- and resource-management core of the renderer:    *)
(*   - MeshManager (renderer/src/managers/mesh_manager.rs): two growable   *)
(*     buffers, two range allocators over them, a registry of GPU mesh     *)
(*     records;                                                            *)
(*   - the fence state machine driven by Device (renderer/src/device.rs);  *)
(*   - PhysicalDevice::create_device (renderer/src/physical_device.rs);    *)
(*   - buffer creation and destruction on one Device by several threads,   *)
(*     around the locked sub-allocator (renderer/src/device.rs);           *)
(*   - the owning and non-owning references to a Device and its teardown   *)
(*     (renderer/src/device.rs);                                           *)
(*   - the event loop, the rendering thread and the LoopBarrier between    *)
(*     them (game/src/main.rs).                                            *)
(* Each component has its own specification (MeshSpec, FenceSpec, ...);    *)
(* a component's actions leave the other components' variables alone.      *)
(***************************************************************************)
EXTENDS Integers, Sequences, FiniteSets, TLC

VARIABLES
    \* ---- MeshManager ----
    overflowChecks, \* build profile: TRUE = integer overflow panics, FALSE = it wraps
    maxBufferSize,  \* device.limits().max_storage_buffer_range
    vertex_alloc,   \* RangeAllocator<u64> over the vertex buffer (bytes)
    index_alloc,    \* RangeAllocator<u64> over the index buffer (index count)
    buffers,        \* MeshBuffers: the two live buffers, [vertices, indices]
    registry,       \* Vec<Option<GpuMesh>>
    held,           \* GpuMesh records returned by upload_mesh, still owned by the caller
    encoder,        \* commands the last upload_mesh call recorded on the caller's encoder
    meshCall,       \* what the last MeshManager call did and returned
    meshStatus,     \* "ok", or "panicked" once a call has panicked
    uploads,        \* number of upload_mesh calls so far
    \* ---- fences ----
    fenceState,     \* Fence::state of every fence wrapper
    nativeSignalled,\* the device's own status of every native fence
    fenceCall,      \* what the last Device fence call did and returned
    \* ---- PhysicalDevice ----
    hw,             \* what the adapter and the instance offer
    pdCall,         \* what create_device did and returned
    \* ---- buffers, images and the sub-allocator ----
    deviceFeatures, \* Device::features(): [buffer_device_address], fixed by Device::new
    pc,             \* where each thread stands in its Device call
    local,          \* each thread's call: [op, id], and for a buffer creation its locals
    lock,           \* holder of the allocator's Mutex (0: free)
    nativeAlive,    \* native buffer and image handles alive
    destroyed,      \* how often each native handle was destroyed
    outstanding,    \* memory blocks the sub-allocator has granted and not got back
    owned,          \* buffers and images their owner has not yet destroyed
    nextId,         \* next native buffer handle
    memCall,        \* each thread's last completed call
    \* ---- Device and WeakDevice references ----
    strong,         \* number of Device values (owning references to Inner)
    weak,           \* number of WeakDevice values, by the kind of resource holding them
    teardown,       \* what Drop for Inner did, in order
    refCall,        \* what the last operation on a reference did and returned
    \* ---- event loop, rendering thread, LoopBarrier ----
    is_running,     \* the AtomicBool shared by the two threads
    state,          \* LoopBarrier::state, the flag inside the Mutex
    stateLock,      \* holder of LoopBarrier::state's Mutex ("none" or "rendering")
    condvar,        \* TRUE while the rendering thread is blocked in condvar.wait
    minimized,      \* handle_event's captured `minimized`
    renderPc,       \* where the rendering thread stands
    eventPc,        \* where the event-loop thread stands
    handling,       \* the event handle_event is handling ("none" between events)
    notifies,       \* how often notify() has set the flag
    waits,          \* how often wait() has returned
    draws,          \* how often renderer.draw() has returned
    lastReturn,     \* `notifies` when wait() last returned
    stopAt          \* [waits, draws] when is_running was stored false, or None

meshVars == <<overflowChecks, maxBufferSize, vertex_alloc, index_alloc, buffers,
              registry, held, encoder, meshCall, meshStatus, uploads>>
fenceVars == <<fenceState, nativeSignalled, fenceCall>>
physVars == <<hw, pdCall>>
memVars == <<deviceFeatures, pc, local, lock, nativeAlive, destroyed, outstanding, owned,
             nextId, memCall>>
refVars == <<strong, weak, teardown, refCall>>
loopVars == <<is_running, state, stateLock, condvar, minimized, renderPc, eventPc, handling,
              notifies, waits, draws, lastReturn, stopAt>>
vars == <<meshVars, fenceVars, physVars, memVars, refVars, loopVars>>
\* What the actions of one component leave unchanged.
meshOthers == <<fenceVars, physVars, memVars, refVars, loopVars>>
fenceOthers == <<meshVars, physVars, memVars, refVars, loopVars>>
physOthers == <<meshVars, fenceVars, memVars, refVars, loopVars>>
memOthers == <<meshVars, fenceVars, physVars, refVars, loopVars>>
refOthers == <<meshVars, fenceVars, physVars, memVars, loopVars>>
loopOthers == <<meshVars, fenceVars, physVars, memVars, refVars>>

(***************************************************************************)
(* Bounds of the model and constants of the program.                       *)
(***************************************************************************)
MaxUploads == 2
MaxHeld == 1
MaxHandles == 2
MaxAttrs == 2
NumFences == 2

INITIAL_VERTICES_CAPACITY == 65536
INITIAL_INDEX_COUNT == 65536
INDEX_SIZE == 4

\* Device limits the model is run against (max_storage_buffer_range).
DeviceLimits == {300000, 1048576}
\* Meshes offered to upload_mesh: vertex counts, attribute streams (kind and
\* bytes per vertex), index counts.
VertexCounts == {0, 4000, 8750}
AttributeKinds == {[kind |-> "UV0", stride |-> 8], [kind |-> "Tangent", stride |-> 16]}
IndexCounts == {0, 40000}

None == [none |-> TRUE]

Min(a, b) == IF a < b THEN a ELSE b
Max(a, b) == IF a > b THEN a ELSE b

\* The one element of a singleton set: binds a computed value to a name.
The(S) == CHOOSE x \in S : TRUE

Rng(s, e) == [start |-> s, end |-> e]
\* Range::is_empty
IsEmpty(r) == ~(r.start < r.end)

(***************************************************************************)
(* u64 arithmetic.  A difference end - start of an inverted range wraps to *)
(* 2^64 + (end - start); the model keeps the negative number and orders it *)
(* as the wrapped value is ordered.                                        *)
(***************************************************************************)
ULess(x, y) == IF (x >= 0) = (y >= 0) THEN x < y ELSE x >= 0

RECURSIVE Pow2From(_, _)
Pow2From(p, n) == IF p >= n THEN p ELSE Pow2From(2 * p, n)
\* u64::checked_next_power_of_two (no overflow below 2^63)
NextPow2(n) == Pow2From(1, n)

(***************************************************************************)
(* range_alloc::RangeAllocator<u64>: a sorted free list over [0, cap).     *)
(* An allocator is [cap |-> initial_range.end, free |-> <<ranges>>].       *)
(* Results carry r: "ok", "err" or "panic".                                *)
(***************************************************************************)
NewAllocator(cap) == [cap |-> cap, free |-> <<Rng(0, cap)>>]

RemoveAt(s, i) == SubSeq(s, 1, i - 1) \o SubSeq(s, i + 1, Len(s))
InsertAt(s, i, x) == SubSeq(s, 1, i - 1) \o <<x>> \o SubSeq(s, i, Len(s))

\* The best-fit scan of allocate_range: the index of the chosen free range,
\* 0 when none fits, -1 when range.end - range.start overflows and the build
\* checks overflow.  The scan stops at the first perfect fit.
RECURSIVE BestFit(_, _, _, _, _)
BestFit(free, i, length, best, checks) ==
    IF i > Len(free) THEN best
    ELSE LET len == free[i].end - free[i].start IN
         IF len < 0 /\ checks THEN -1
         ELSE IF ULess(len, length) THEN BestFit(free, i + 1, length, best, checks)
         ELSE IF len = length THEN i
         ELSE IF best = 0 THEN BestFit(free, i + 1, length, i, checks)
         ELSE IF ULess(len, free[best].end - free[best].start)
              THEN BestFit(free, i + 1, length, i, checks)
              ELSE BestFit(free, i + 1, length, best, checks)

\* RangeAllocator::allocate_range
AllocateRange(a, length, checks) ==
    IF length = 0 THEN [r |-> "panic", alloc |-> a, range |-> Rng(0, 0)]
    ELSE The({
         IF b = -1 THEN [r |-> "panic", alloc |-> a, range |-> Rng(0, 0)]
         ELSE IF b = 0 THEN [r |-> "err", alloc |-> a, range |-> Rng(0, 0)]
         ELSE LET fr == a.free[b] IN
              [r |-> "ok",
               alloc |-> [a EXCEPT !.free =
                   IF fr.end - fr.start = length
                   THEN RemoveAt(a.free, b)
                   ELSE [a.free EXCEPT ![b].start = fr.start + length]],
               range |-> Rng(fr.start, fr.start + length)]
         : b \in {BestFit(a.free, 1, length, 0, checks)} })

\* RangeAllocator::grow_to
GrowTo(a, new_end) ==
    IF Len(a.free) > 0 /\ a.free[Len(a.free)].end = a.cap
    THEN [cap |-> new_end, free |-> [a.free EXCEPT ![Len(a.free)].end = new_end]]
    ELSE [cap |-> new_end, free |-> Append(a.free, Rng(a.cap, new_end))]

\* position(|r| r.start > range.start).unwrap_or(len), 1-based
RECURSIVE Position(_, _, _)
Position(free, start, i) ==
    IF i > Len(free) THEN i
    ELSE IF free[i].start > start THEN i
    ELSE Position(free, start, i + 1)

\* RangeAllocator::free_range
FreeRange(a, range) ==
    IF ~(0 <= range.start /\ range.end <= a.cap) \/ ~(range.start < range.end)
    THEN [r |-> "panic", alloc |-> a]
    ELSE The({
         LET f == a.free
             left == i > 1 /\ range.start = f[i - 1].end
             right == i <= Len(f) /\ range.end = f[i].start
         IN IF left
            THEN [r |-> "ok", alloc |-> [a EXCEPT !.free =
                    IF right
                    THEN RemoveAt([f EXCEPT ![i - 1].end = f[i].end], i)
                    ELSE [f EXCEPT ![i - 1].end = range.end]]]
            ELSE IF right
            THEN [r |-> "ok", alloc |-> [a EXCEPT !.free = [f EXCEPT ![i].start = range.start]]]
            ELSE IF (i = 1 \/ f[i - 1].end < range.start)
                    /\ (i > Len(f) \/ range.end < f[i].start)
            THEN [r |-> "ok", alloc |-> [a EXCEPT !.free = InsertAt(f, i, range)]]
            ELSE [r |-> "panic", alloc |-> a]
         : i \in {Position(a.free, range.start, 1)} })

(***************************************************************************)
(* MeshManager.  The operators below work on a record m of the manager's   *)
(* fields during one call:                                                 *)
(*   va, ia     vertex_alloc, index_alloc                                  *)
(*   vb, ib     buffers.vertices, buffers.indices: [size, gen]; a command  *)
(*              names a buffer by its kind, gen and size                   *)
(*   enc        the commands recorded on the encoder so far                *)
(*   log        the sizes realloc computed so far                          *)
(*   created    number of Device::create_buffer calls made so far          *)
(*   failAt     which create_buffer call of this call fails (0: none)      *)
(*   checks, limit   the build's overflow checks, the device limit         *)
(***************************************************************************)
\* gfx::BufferCopy
BufferCopy(src, dst, size) == [src_offset |-> src, dst_offset |-> dst, size |-> size]
\* Encoder::copy_buffer
CopyBuffer(src, dst, regions) == [src |-> src, dst |-> dst, regions |-> regions]

\* make_vertices / make_indices: Device::create_buffer succeeds unless this is
\* the call chosen to fail.
CreateBuffer(m) ==
    [ok |-> m.created + 1 # m.failAt, m |-> [m EXCEPT !.created = m.created + 1]]

\* `let current_vertices_size = self.index_alloc.initial_range().end;`
CurrentVerticesSize(m) == m.ia.cap

\* `let current_index_count = self.index_alloc.initial_range().end;`
CurrentIndexCount(m) == m.ia.cap

\* NewSize without the rounding up to a power of two.
NewSize_NoPowerOfTwo(current, additional, max) == Min(current + additional, max)

\* checked_add(..).and_then(checked_next_power_of_two).min(max_buffer_size)
NewSize(current, additional, max) == Min(NextPow2(current + additional), max)

\* UpdateVertices with the allocator rebuilt over the new size instead of grown.
UpdateVertices_NewAllocator(m, new_vertices_size, current_vertices_size) ==
    [m EXCEPT
       !.vb = [size |-> new_vertices_size, gen |-> m.vb.gen + 1],
       !.va = NewAllocator(new_vertices_size),
       !.enc = Append(m.enc,
           CopyBuffer([kind |-> "vertices", gen |-> m.vb.gen, size |-> m.vb.size],
                      [kind |-> "vertices", gen |-> m.vb.gen + 1,
                       size |-> new_vertices_size],
                      <<BufferCopy(0, 0, current_vertices_size)>>))]

\* realloc, lines 266-279: replace the vertex buffer, grow the allocator, record
\* the copy of the old buffer into the new one.
UpdateVertices(m, new_vertices_size, current_vertices_size) ==
    [m EXCEPT
       !.vb = [size |-> new_vertices_size, gen |-> m.vb.gen + 1],
       !.va = GrowTo(m.va, new_vertices_size),
       !.enc = Append(m.enc,
           CopyBuffer([kind |-> "vertices", gen |-> m.vb.gen, size |-> m.vb.size],
                      [kind |-> "vertices", gen |-> m.vb.gen + 1,
                       size |-> new_vertices_size],
                      <<BufferCopy(0, 0, current_vertices_size)>>))]

\* UpdateIndices growing the allocator to the byte size instead of the count.
UpdateIndices_GrowToBytes(m, new_indices_size, current_indices_size) ==
    [m EXCEPT
       !.ib = [size |-> new_indices_size, gen |-> m.ib.gen + 1],
       !.ia = GrowTo(m.ia, new_indices_size),
       !.enc = Append(m.enc,
           CopyBuffer([kind |-> "indices", gen |-> m.ib.gen, size |-> m.ib.size],
                      [kind |-> "indices", gen |-> m.ib.gen + 1,
                       size |-> new_indices_size],
                      <<BufferCopy(0, 0, current_indices_size)>>))]

\* realloc, lines 281-294: the same for the index buffer.
UpdateIndices(m, new_indices_size, current_indices_size) ==
    [m EXCEPT
       !.ib = [size |-> new_indices_size, gen |-> m.ib.gen + 1],
       !.ia = GrowTo(m.ia, new_indices_size \div INDEX_SIZE),
       !.enc = Append(m.enc,
           CopyBuffer([kind |-> "indices", gen |-> m.ib.gen, size |-> m.ib.size],
                      [kind |-> "indices", gen |-> m.ib.gen + 1,
                       size |-> new_indices_size],
                      <<BufferCopy(0, 0, current_indices_size)>>))]

\* An entry of the log of sizes realloc computed (kept for the properties).
ReallocEntry(m, kind, additional, new_size) ==
    [kind |-> kind, vertex_capacity |-> m.va.cap, index_capacity |-> m.ia.cap,
     additional |-> additional, new_size |-> new_size]

\* MeshManager::realloc
Realloc(m, additional_vertices_capacity, additional_index_count) ==
    LET update_vertices == additional_vertices_capacity > 0
        update_indices == additional_index_count > 0
        current_vertices_size == CurrentVerticesSize(m)
        new_vertices_size ==
            NewSize(current_vertices_size, additional_vertices_capacity, m.limit)
        current_indices_size == CurrentIndexCount(m) * INDEX_SIZE
        new_indices_size ==
            NewSize(current_indices_size, additional_index_count * INDEX_SIZE, m.limit)
        lv == IF update_vertices
              THEN Append(m.log, ReallocEntry(m, "vertices",
                              additional_vertices_capacity, new_vertices_size))
              ELSE m.log
        li == IF update_indices
              THEN Append(lv, ReallocEntry(m, "indices",
                              additional_index_count, new_indices_size))
              ELSE lv
        mv == [m EXCEPT !.log = lv]
        \* after make_vertices, then after make_indices
        cv == IF update_vertices THEN CreateBuffer(mv) ELSE [ok |-> TRUE, m |-> mv]
        mi == [cv.m EXCEPT !.log = li]
        ci == IF update_indices THEN CreateBuffer(mi) ELSE [ok |-> TRUE, m |-> mi]
        m1 == IF update_vertices
              THEN UpdateVertices(ci.m, new_vertices_size, current_vertices_size)
              ELSE ci.m
        m2 == IF update_indices
              THEN UpdateIndices(m1, new_indices_size, current_indices_size)
              ELSE m1
    IN  IF ~update_vertices /\ ~update_indices THEN [r |-> "ok", m |-> m]
        ELSE IF update_vertices /\ ~(new_vertices_size > current_vertices_size)
        THEN [r |-> "err", m |-> mv]
        ELSE IF ~cv.ok THEN [r |-> "err", m |-> cv.m]
        ELSE IF update_indices /\ ~(new_indices_size > current_indices_size)
        THEN [r |-> "err", m |-> mi]
        ELSE IF update_indices /\ new_indices_size % INDEX_SIZE # 0
        THEN [r |-> "err", m |-> mi]
        ELSE IF ~ci.ok THEN [r |-> "err", m |-> ci.m]
        ELSE [r |-> "ok", m |-> m2]

\* MeshManager::alloc_range_for_vertices
AllocRangeForVertices(m, size) ==
    The({
      IF a.r = "ok" THEN [r |-> "ok", m |-> [m EXCEPT !.va = a.alloc], range |-> a.range]
      ELSE IF a.r = "panic" THEN [r |-> "panic", m |-> m, range |-> a.range]
      ELSE The({
           IF g.r # "ok" THEN [r |-> g.r, m |-> g.m, range |-> a.range]
           ELSE The({
                IF b.r = "ok"
                THEN [r |-> "ok", m |-> [g.m EXCEPT !.va = b.alloc], range |-> b.range]
                ELSE [r |-> "panic", m |-> g.m, range |-> b.range]
                : b \in {AllocateRange(g.m.va, size, m.checks)} })
           : g \in {Realloc(m, size, 0)} })
      : a \in {AllocateRange(m.va, size, m.checks)} })

\* MeshManager::alloc_range_for_indices
AllocRangeForIndices(m, count) ==
    The({
      IF a.r = "ok" THEN [r |-> "ok", m |-> [m EXCEPT !.ia = a.alloc], range |-> a.range]
      ELSE IF a.r = "panic" THEN [r |-> "panic", m |-> m, range |-> a.range]
      ELSE The({
           IF g.r # "ok" THEN [r |-> g.r, m |-> g.m, range |-> a.range]
           ELSE The({
                IF b.r = "ok"
                THEN [r |-> "ok", m |-> [g.m EXCEPT !.ia = b.alloc], range |-> b.range]
                ELSE [r |-> "panic", m |-> g.m, range |-> b.range]
                : b \in {AllocateRange(g.m.ia, count, m.checks)} })
           : g \in {Realloc(m, 0, count)} })
      : a \in {AllocateRange(m.ia, count, m.checks)} })

\* GpuMesh::new_empty
NewEmpty == [vertex_count |-> 0, vertex_attribute_ranges |-> <<>>,
             indices_range |-> Rng(0, 0)]

\* A mesh offered to upload_mesh: [vertex_count, attribute_data, indices], with
\* the attribute streams as <<[kind, stride]>> and the indices as their count.
ByteLen(mesh, i) == mesh.vertex_count * mesh.attribute_data[i].stride

RECURSIVE SumByteLen(_, _)
SumByteLen(mesh, i) ==
    IF i > Len(mesh.attribute_data) THEN 0
    ELSE ByteLen(mesh, i) + SumByteLen(mesh, i + 1)

\* upload_mesh, lines 80-103: one range and one copy per attribute stream.
RECURSIVE AllocAttributes(_, _, _, _)
AllocAttributes(m, mesh, i, acc) ==
    IF i > Len(mesh.attribute_data) THEN [r |-> "ok", m |-> m, acc |-> acc]
    ELSE The({
         IF a.r # "ok" THEN [r |-> a.r, m |-> a.m, acc |-> acc]
         ELSE The({ AllocAttributes(a.m, mesh, i + 1, acc1) : acc1 \in {
                   [ranges |-> Append(acc.ranges,
                        [kind |-> mesh.attribute_data[i].kind, range |-> a.range]),
                    copies |-> Append(acc.copies,
                        BufferCopy(acc.offset, a.range.start, a.range.end - a.range.start)),
                    offset |-> acc.offset + ByteLen(mesh, i)]} })
         : a \in {AllocRangeForVertices(m, ByteLen(mesh, i))} })

\* IsEmptyMesh that forgets the index list.
IsEmptyMesh_VerticesOnly(mesh) == mesh.vertex_count = 0

\* upload_mesh, line 44: `vertex_count == 0 || index_count == 0`
IsEmptyMesh(mesh) == mesh.vertex_count = 0 \/ mesh.indices = 0

\* FinishUpload with the staging copies recorded ahead of realloc's copies.
FinishUpload_CopiesFirst(mesh, at, ix) ==
    LET staging == [kind |-> "staging",
                    size |-> SumByteLen(mesh, 1) + mesh.indices * INDEX_SIZE]
        indices_copy == BufferCopy(at.acc.offset, ix.range.start,
                                   ix.range.end - ix.range.start)
    IN  [r |-> "ok",
         m |-> [ix.m EXCEPT !.enc =
                  << CopyBuffer(staging,
                                [kind |-> "vertices", gen |-> ix.m.vb.gen,
                                 size |-> ix.m.vb.size],
                                at.acc.copies),
                     CopyBuffer(staging,
                                [kind |-> "indices", gen |-> ix.m.ib.gen,
                                 size |-> ix.m.ib.size],
                                <<indices_copy>>) >> \o ix.m.enc],
         mesh |-> [vertex_count |-> mesh.vertex_count,
                   vertex_attribute_ranges |-> at.acc.ranges,
                   indices_range |-> ix.range],
         staging |-> TRUE]

\* upload_mesh, lines 129-146: the two copies from the staging buffer, the record.
FinishUpload(mesh, at, ix) ==
    LET staging == [kind |-> "staging",
                    size |-> SumByteLen(mesh, 1) + mesh.indices * INDEX_SIZE]
        indices_copy == BufferCopy(at.acc.offset, ix.range.start,
                                   ix.range.end - ix.range.start)
    IN  [r |-> "ok",
         m |-> [ix.m EXCEPT !.enc = ix.m.enc \o
                  << CopyBuffer(staging,
                                [kind |-> "vertices", gen |-> ix.m.vb.gen,
                                 size |-> ix.m.vb.size],
                                at.acc.copies),
                     CopyBuffer(staging,
                                [kind |-> "indices", gen |-> ix.m.ib.gen,
                                 size |-> ix.m.ib.size],
                                <<indices_copy>>) >>],
         mesh |-> [vertex_count |-> mesh.vertex_count,
                   vertex_attribute_ranges |-> at.acc.ranges,
                   indices_range |-> ix.range],
         staging |-> TRUE]

\* MeshManager::upload_mesh.  mapFails: Device::map_memory fails.
\* The result: r ("ok", "err", "panic"), the manager after the call, the record
\* returned, whether a staging buffer was created.
UploadMeshOp(m, mesh, mapFails) ==
    IF IsEmptyMesh(mesh)
    THEN [r |-> "ok", m |-> m, mesh |-> NewEmpty, staging |-> FALSE]
    ELSE The({
      IF ~st.ok THEN [r |-> "err", m |-> st.m, mesh |-> None, staging |-> FALSE]
      ELSE IF mapFails THEN [r |-> "err", m |-> st.m, mesh |-> None, staging |-> TRUE]
      ELSE The({
        IF at.r # "ok" THEN [r |-> at.r, m |-> at.m, mesh |-> None, staging |-> TRUE]
        ELSE The({
          IF ix.r # "ok" THEN [r |-> ix.r, m |-> ix.m, mesh |-> None, staging |-> TRUE]
          ELSE FinishUpload(mesh, at, ix)
          : ix \in {AllocRangeForIndices(at.m, mesh.indices)} })
        : at \in {AllocAttributes(st.m, mesh, 1,
                    [ranges |-> <<>>, copies |-> <<>>, offset |-> 0])} })
      : st \in {CreateBuffer(m)} })

\* MeshManager::remove, lines 161-165: free every non-empty attribute range.
RECURSIVE FreeAttributeRanges(_, _, _)
FreeAttributeRanges(va, ranges, i) ==
    IF i > Len(ranges) THEN [r |-> "ok", alloc |-> va]
    ELSE IF IsEmpty(ranges[i].range) THEN FreeAttributeRanges(va, ranges, i + 1)
    ELSE The({ IF f.r # "ok" THEN f ELSE FreeAttributeRanges(f.alloc, ranges, i + 1)
               : f \in {FreeRange(va, ranges[i].range)} })

(***************************************************************************)
(* The MeshManager's state machine.                                        *)
(***************************************************************************)
AttributeSeqs ==
    {a \in UNION {[1..n -> AttributeKinds] : n \in 0..MaxAttrs} :
        \A i, j \in DOMAIN a : i # j => a[i].kind # a[j].kind}
Meshes == [vertex_count : VertexCounts, attribute_data : AttributeSeqs,
           indices : IndexCounts]
\* Which Device::create_buffer call of an upload fails (0: none).
FailPoints == 0..(MaxAttrs + 1)
Handles == 0..(MaxHandles - 1)

\* MeshManager::new, MeshBuffers::new
MeshInit ==
    /\ overflowChecks \in BOOLEAN
    /\ maxBufferSize \in DeviceLimits
    /\ vertex_alloc = NewAllocator(INITIAL_VERTICES_CAPACITY)
    /\ index_alloc = NewAllocator(INITIAL_INDEX_COUNT)
    /\ buffers = [vertices |-> [size |-> INITIAL_INDEX_COUNT, gen |-> 0],
                  indices |-> [size |-> INITIAL_INDEX_COUNT * INDEX_SIZE, gen |-> 0]]
    /\ registry = <<>>
    /\ held = <<>>
    /\ encoder = <<>>
    /\ meshCall = [op |-> "new", r |-> "ok"]
    /\ meshStatus = "ok"
    /\ uploads = 0

\* The manager's fields at the start of a call that is given a fresh encoder.
Manager(failAt) ==
    [va |-> vertex_alloc, ia |-> index_alloc,
     vb |-> buffers.vertices, ib |-> buffers.indices,
     enc |-> <<>>, log |-> <<>>, created |-> 0, failAt |-> failAt,
     checks |-> overflowChecks, limit |-> maxBufferSize]

\* A call of upload_mesh; the record it returns is held by the caller.
UploadMesh(mesh, failAt, mapFails) ==
    /\ meshStatus = "ok"
    /\ uploads < MaxUploads
    /\ Len(held) < MaxHeld
    /\ \E res \in {UploadMeshOp(Manager(failAt), mesh, mapFails)} :
        /\ vertex_alloc' = res.m.va
        /\ index_alloc' = res.m.ia
        /\ buffers' = [vertices |-> res.m.vb, indices |-> res.m.ib]
        /\ encoder' = res.m.enc
        /\ held' = IF res.r = "ok" THEN Append(held, res.mesh) ELSE held
        /\ meshStatus' = IF res.r = "panic" THEN "panicked" ELSE "ok"
        /\ meshCall' = [op |-> "upload_mesh", r |-> res.r, mesh |-> mesh,
                        staging |-> res.staging, record |-> res.mesh,
                        reallocs |-> res.m.log]
    /\ uploads' = uploads + 1
    /\ UNCHANGED <<overflowChecks, maxBufferSize, registry, meshOthers>>

\* resize_with called without the check of line 151: a longer registry is cut.
ResizeWith_Unguarded(reg, n) ==
    IF n <= Len(reg) THEN SubSeq(reg, 1, n) ELSE reg \o [i \in 1..(n - Len(reg)) |-> None]

\* `if index >= self.registry.len() { self.registry.resize_with(index + 1, || None) }`
ResizeWith(reg, n) ==
    IF n <= Len(reg) THEN reg ELSE reg \o [i \in 1..(n - Len(reg)) |-> None]

\* MeshManager::insert of the k-th record the caller holds
Insert(handle, k) ==
    /\ meshStatus = "ok"
    /\ k \in 1..Len(held)
    /\ registry' = [ResizeWith(registry, handle + 1) EXCEPT ![handle + 1] = held[k]]
    /\ held' = RemoveAt(held, k)
    /\ meshCall' = [op |-> "insert", r |-> "ok", handle |-> handle,
                    replaced |-> handle + 1 <= Len(registry)
                                 /\ registry[handle + 1] # None]
    /\ UNCHANGED <<overflowChecks, maxBufferSize, vertex_alloc, index_alloc, buffers,
                   encoder, meshStatus, uploads, meshOthers>>

\* The handle's slot exists and holds a record.
Registered(reg, handle) == handle + 1 <= Len(reg) /\ reg[handle + 1] # None

\* RemoveOp that returns quietly when the handle holds no record.
RemoveOp_IgnoreMissing(reg, va, ia, handle) ==
    IF ~Registered(reg, handle)
    THEN [r |-> "ok", reg |-> reg, va |-> va, ia |-> ia]
    ELSE The({
         IF fv.r # "ok"
         THEN [r |-> "panic", reg |-> [reg EXCEPT ![handle + 1] = None],
               va |-> fv.alloc, ia |-> ia]
         ELSE The({ [r |-> fi.r, reg |-> [reg EXCEPT ![handle + 1] = None],
                     va |-> fv.alloc, ia |-> fi.alloc]
                    : fi \in {IF IsEmpty(reg[handle + 1].indices_range)
                              THEN [r |-> "ok", alloc |-> ia]
                              ELSE FreeRange(ia, reg[handle + 1].indices_range)} })
         : fv \in {FreeAttributeRanges(va, reg[handle + 1].vertex_attribute_ranges, 1)} })

\* MeshManager::remove
RemoveOp(reg, va, ia, handle) ==
    IF ~Registered(reg, handle)
    THEN [r |-> "panic", reg |-> reg, va |-> va, ia |-> ia]
    ELSE The({
         IF fv.r # "ok"
         THEN [r |-> "panic", reg |-> [reg EXCEPT ![handle + 1] = None],
               va |-> fv.alloc, ia |-> ia]
         ELSE The({ [r |-> fi.r, reg |-> [reg EXCEPT ![handle + 1] = None],
                     va |-> fv.alloc, ia |-> fi.alloc]
                    : fi \in {IF IsEmpty(reg[handle + 1].indices_range)
                              THEN [r |-> "ok", alloc |-> ia]
                              ELSE FreeRange(ia, reg[handle + 1].indices_range)} })
         : fv \in {FreeAttributeRanges(va, reg[handle + 1].vertex_attribute_ranges, 1)} })

Remove(handle) ==
    /\ meshStatus = "ok"
    /\ \E res \in {RemoveOp(registry, vertex_alloc, index_alloc, handle)} :
        /\ registry' = res.reg
        /\ vertex_alloc' = res.va
        /\ index_alloc' = res.ia
        /\ meshStatus' = IF res.r = "panic" THEN "panicked" ELSE "ok"
        /\ meshCall' = [op |-> "remove", r |-> res.r, handle |-> handle,
                        registered |-> Registered(registry, handle)]
    /\ UNCHANGED <<overflowChecks, maxBufferSize, buffers, held, encoder, uploads,
                   meshOthers>>

\* The caller drops a record it holds without inserting it (GpuMesh has no Drop:
\* its ranges stay allocated).
DropRecord(k) ==
    /\ meshStatus = "ok"
    /\ k \in 1..Len(held)
    /\ held' = RemoveAt(held, k)
    /\ meshCall' = [op |-> "drop", r |-> "ok"]
    /\ UNCHANGED <<overflowChecks, maxBufferSize, vertex_alloc, index_alloc, buffers,
                   registry, encoder, meshStatus, uploads, meshOthers>>

MeshNext ==
    \/ \E mesh \in Meshes, failAt \in FailPoints, mapFails \in BOOLEAN :
          UploadMesh(mesh, failAt, mapFails)
    \/ \E handle \in Handles, k \in 1..MaxHeld : Insert(handle, k)
    \/ \E handle \in Handles : Remove(handle)
    \/ \E k \in 1..MaxHeld : DropRecord(k)

(***************************************************************************)
(* Fences.  Fence (resources/fence.rs) keeps a three-variant state whose   *)
(* transition functions validate the source state; Device drives it from   *)
(* the native fence's status.                                              *)
(***************************************************************************)
Fences == 1..NumFences
\* Batches handed to reset_fences and wait_fences: `&mut [&mut Fence]`, so the
\* fences of a batch are distinct.
Batches ==
    {b \in UNION {[1..n -> Fences] : n \in 0..NumFences} :
        \A i, j \in DOMAIN b : i # j => b[i] # b[j]}
InBatch(b) == {b[i] : i \in DOMAIN b}

\* Fence::set_armed (called when a queue submission carries the fence)
SetArmed(st) ==
    IF st = "Unsignalled" THEN [ok |-> TRUE, st |-> "Armed"] ELSE [ok |-> FALSE, st |-> st]
\* Fence::set_signalled
SetSignalled(st) ==
    IF st = "Unsignalled" THEN [ok |-> FALSE, st |-> st] ELSE [ok |-> TRUE, st |-> "Signalled"]
\* Fence::set_unsignalled
SetUnsignalled(st) ==
    IF st = "Armed" THEN [ok |-> FALSE, st |-> st] ELSE [ok |-> TRUE, st |-> "Unsignalled"]

\* logical.get_fence_status: the native status, or an error for the fence whose
\* poll was chosen to fail (errAt; 0: none).  No other success code exists.
GetFenceStatus(f, native, errAt) ==
    IF f = errAt THEN "ERROR" ELSE IF native[f] THEN "SUCCESS" ELSE "NOT_READY"

\* UpdateArmedFenceStateOp that reports completion without marking the fence.
UpdateArmedFenceStateOp_ReportsWithoutMarking(st, status) ==
    IF status = "ERROR" THEN [r |-> "err", val |-> FALSE, st |-> st]
    ELSE [r |-> "ok", val |-> status = "SUCCESS", st |-> st]

\* Device::update_armed_fence_state on a fence in state st, given the poll's answer:
\* r is "ok" or "err", val the boolean returned.
UpdateArmedFenceStateOp(st, status) ==
    IF status = "ERROR" THEN [r |-> "err", val |-> FALSE, st |-> st]
    ELSE IF status = "NOT_READY" THEN [r |-> "ok", val |-> FALSE, st |-> st]
    ELSE LET s == SetSignalled(st) IN
         [r |-> IF s.ok THEN "ok" ELSE "err", val |-> s.ok, st |-> s.st]

NoPolls == [f \in Fences |-> "none"]

FenceInit ==
    /\ fenceState = [f \in Fences |-> "Unsignalled"]
    /\ nativeSignalled = [f \in Fences |-> FALSE]
    /\ fenceCall = [op |-> "create_fence", r |-> "ok"]

\* A queue submission arms an unsignalled fence.
Submit(f) ==
    /\ SetArmed(fenceState[f]).ok
    /\ fenceState' = [fenceState EXCEPT ![f] = SetArmed(fenceState[f]).st]
    /\ fenceCall' = [op |-> "submit", r |-> "ok", fence |-> f]
    /\ UNCHANGED <<nativeSignalled, fenceOthers>>

\* The device finishes the work an armed fence was submitted with.
DeviceSignal(f) ==
    /\ fenceState[f] = "Armed"
    /\ ~nativeSignalled[f]
    /\ nativeSignalled' = [nativeSignalled EXCEPT ![f] = TRUE]
    /\ UNCHANGED <<fenceState, fenceCall, fenceOthers>>

\* Device::update_armed_fence_state
UpdateArmedFenceState(f, errAt) ==
    LET status == GetFenceStatus(f, nativeSignalled, errAt)
        u == UpdateArmedFenceStateOp(fenceState[f], status)
    IN  /\ fenceState' = [fenceState EXCEPT ![f] = u.st]
        /\ fenceCall' = [op |-> "update_armed_fence_state", r |-> u.r, val |-> u.val,
                         fence |-> f, pre |-> fenceState, native |-> nativeSignalled,
                         polls |-> [NoPolls EXCEPT ![f] = status],
                         native_wait |-> FALSE, native_reset |-> FALSE]
        /\ UNCHANGED <<nativeSignalled, fenceOthers>>

\* ResetHandle that lets a not-ready armed fence through.
ResetHandle_IgnoreNotReady(st, status) ==
    IF st = "Armed"
    THEN LET u == UpdateArmedFenceStateOp(st, status) IN
         [r |-> IF u.r = "ok" THEN "ok" ELSE "err", st |-> u.st, polled |-> TRUE]
    ELSE [r |-> "ok", st |-> st, polled |-> FALSE]

\* ResetHandle that polls the device but leaves the wrapper's state alone.
ResetHandle_NoCatchUp(st, status) ==
    IF st = "Armed"
    THEN [r |-> IF status = "SUCCESS" THEN "ok" ELSE "err", st |-> st, polled |-> TRUE]
    ELSE [r |-> "ok", st |-> st, polled |-> FALSE]

\* ResetHandle that marks an armed fence signalled whatever the poll answers.
ResetHandle_ForceSignalled(st, status) ==
    IF st = "Armed"
    THEN [r |-> IF status = "ERROR" THEN "err" ELSE "ok",
          st |-> IF status = "ERROR" THEN st ELSE SetSignalled(st).st, polled |-> TRUE]
    ELSE [r |-> "ok", st |-> st, polled |-> FALSE]

\* reset_fences, lines 156-167, the closure applied to one fence in state st:
\* an armed fence is polled (status) and must turn out signalled.
ResetHandle(st, status) ==
    IF st = "Armed"
    THEN LET u == UpdateArmedFenceStateOp(st, status) IN
         [r |-> IF u.r = "ok" /\ u.val THEN "ok" ELSE "err", st |-> u.st, polled |-> TRUE]
    ELSE [r |-> "ok", st |-> st, polled |-> FALSE]

\* reset_fences, lines 154-169: the closure over the batch in order, stopping
\* at the first error.
RECURSIVE ResetCollect(_, _, _, _, _, _)
ResetCollect(batch, i, st, polls, native, errAt) ==
    IF i > Len(batch) THEN [r |-> "ok", st |-> st, polls |-> polls]
    ELSE \* f: the fence, status: its poll's answer, h: the closure's result
         The({ The({
             LET st1 == [st EXCEPT ![f] = h.st]
                 polls1 == IF h.polled THEN [polls EXCEPT ![f] = status] ELSE polls
             IN IF h.r = "ok"
                THEN ResetCollect(batch, i + 1, st1, polls1, native, errAt)
                ELSE [r |-> "err", st |-> st1, polls |-> polls1]
             : h \in {ResetHandle(st[f], status)} })
           : f \in {batch[i]}, status \in {GetFenceStatus(batch[i], native, errAt)} })

\* reset_fences, lines 173-175
RECURSIVE SetAllUnsignalled(_, _, _)
SetAllUnsignalled(batch, i, st) ==
    IF i > Len(batch) THEN [r |-> "ok", st |-> st]
    ELSE The({ IF ~s.ok THEN [r |-> "err", st |-> st]
               ELSE SetAllUnsignalled(batch, i + 1, [st EXCEPT ![batch[i]] = s.st])
               : s \in {SetUnsignalled(st[batch[i]])} })

\* ResetFences that runs the set_unsignalled loop before it looks at the
\* native reset's result.
ResetFences_UnsignalsBeforeNativeReset(batch, errAt, resetFails) ==
    \E c \in {ResetCollect(batch, 1, fenceState, NoPolls, nativeSignalled, errAt)} :
    \E u \in {SetAllUnsignalled(batch, 1, c.st)} :
    LET reset_called == c.r = "ok"
        reset_ok == reset_called /\ ~resetFails
    IN  /\ resetFails => reset_called
        /\ fenceState' = IF reset_called THEN u.st ELSE c.st
        /\ nativeSignalled' = IF reset_ok
                              THEN [f \in Fences |->
                                      IF f \in InBatch(batch) THEN FALSE
                                      ELSE nativeSignalled[f]]
                              ELSE nativeSignalled
        /\ fenceCall' = [op |-> "reset_fences",
                         r |-> IF reset_ok THEN u.r ELSE "err",
                         batch |-> batch, pre |-> fenceState,
                         native |-> nativeSignalled, mid |-> c.st,
                         polls |-> c.polls,
                         native_wait |-> FALSE, native_reset |-> reset_called,
                         native_reset_ok |-> reset_ok]
        /\ UNCHANGED fenceOthers

\* Device::reset_fences.  resetFails: the native reset call fails.
ResetFences(batch, errAt, resetFails) ==
    \E c \in {ResetCollect(batch, 1, fenceState, NoPolls, nativeSignalled, errAt)} :
    \E u \in {SetAllUnsignalled(batch, 1, c.st)} :
    LET reset_called == c.r = "ok"
        reset_ok == reset_called /\ ~resetFails
    IN  /\ resetFails => reset_called
        /\ fenceState' = IF reset_ok THEN u.st ELSE c.st
        /\ nativeSignalled' = IF reset_ok
                              THEN [f \in Fences |->
                                      IF f \in InBatch(batch) THEN FALSE
                                      ELSE nativeSignalled[f]]
                              ELSE nativeSignalled
        /\ fenceCall' = [op |-> "reset_fences",
                         r |-> IF reset_ok THEN u.r ELSE "err",
                         batch |-> batch, pre |-> fenceState,
                         native |-> nativeSignalled, mid |-> c.st,
                         polls |-> c.polls,
                         native_wait |-> FALSE, native_reset |-> reset_called,
                         native_reset_ok |-> reset_ok]
        /\ UNCHANGED fenceOthers

\* WaitHandle that hands a signalled fence to the native wait as well.
WaitHandle_WaitsOnSignalled(st) == IF st = "Unsignalled" THEN "err" ELSE "handle"

\* WaitHandle that skips an unsignalled fence as it skips a signalled one.
WaitHandle_SkipUnsignalled(st) == IF st = "Armed" THEN "handle" ELSE "skip"

\* wait_fences, lines 183-192, the filter_map closure on a fence in state st:
\* "err", "handle" (wait on it) or "skip".
WaitHandle(st) ==
    IF st = "Unsignalled" THEN "err"
    ELSE IF st = "Armed" THEN "handle"
    ELSE "skip"

\* wait_fences, lines 181-193: the handles to wait on, or an error at the first
\* unsignalled fence.
RECURSIVE WaitCollect(_, _, _, _)
WaitCollect(batch, i, st, handles) ==
    IF i > Len(batch) THEN [r |-> "ok", handles |-> handles]
    ELSE LET h == WaitHandle(st[batch[i]]) IN
         IF h = "err" THEN [r |-> "err", handles |-> handles]
         ELSE IF h = "handle"
         THEN WaitCollect(batch, i + 1, st, Append(handles, batch[i]))
         ELSE WaitCollect(batch, i + 1, st, handles)

\* AllSignalled that takes any successful wait as a wait for all.
AllSignalled_AnyCount(wait_all, handles) == wait_all \/ Len(handles) >= 1

\* wait_fences, line 205
AllSignalled(wait_all, handles) == wait_all \/ Len(handles) = 1

\* MarkStep that marks only the fences it polled itself.
MarkStep_OnlyPolled(st, all_signalled, status) ==
    IF all_signalled THEN [r |-> "ok", st |-> st, polled |-> FALSE]
    ELSE LET u == UpdateArmedFenceStateOp(st, status) IN
         [r |-> u.r, st |-> u.st, polled |-> TRUE]

\* wait_fences, lines 207-209, for one fence in state st:
\* `if all_signalled || self.update_armed_fence_state(fence)? { fence.set_signalled()?; }`
MarkStep(st, all_signalled, status) ==
    IF all_signalled
    THEN LET s == SetSignalled(st) IN
         [r |-> IF s.ok THEN "ok" ELSE "err", st |-> s.st, polled |-> FALSE]
    ELSE LET u == UpdateArmedFenceStateOp(st, status)
             s == SetSignalled(u.st)
         IN IF u.r # "ok" THEN [r |-> "err", st |-> u.st, polled |-> TRUE]
            ELSE IF ~u.val THEN [r |-> "ok", st |-> u.st, polled |-> TRUE]
            ELSE [r |-> IF s.ok THEN "ok" ELSE "err", st |-> s.st, polled |-> TRUE]

\* wait_fences, lines 206-210
RECURSIVE MarkSignalled(_, _, _, _, _, _, _)
MarkSignalled(batch, i, st, polls, native, all_signalled, errAt) ==
    IF i > Len(batch) THEN [r |-> "ok", st |-> st, polls |-> polls]
    ELSE \* f: the fence, status: its poll's answer, k: the step's result
         The({ The({
             LET st1 == [st EXCEPT ![f] = k.st]
                 polls1 == IF k.polled THEN [polls EXCEPT ![f] = status] ELSE polls
             IN IF k.r # "ok" THEN [r |-> "err", st |-> st1, polls |-> polls1]
                ELSE MarkSignalled(batch, i + 1, st1, polls1, native, all_signalled, errAt)
             : k \in {MarkStep(st[f], all_signalled, status)} })
           : f \in {batch[i]}, status \in {GetFenceStatus(batch[i], native, errAt)} })

\* The native wait returns once all (wait_all) or one of the handles is signalled.
WaitSatisfied(handles, wait_all, native) ==
    IF wait_all THEN \A i \in DOMAIN handles : native[handles[i]]
    ELSE \E i \in DOMAIN handles : native[handles[i]]

\* Device::wait_fences.  While the native wait blocks, the device completes the
\* armed fences of `completing`; waitFails: the native wait returns an error.
WaitFences(batch, wait_all, completing, waitFails, errAt) ==
    \E c \in {WaitCollect(batch, 1, fenceState, <<>>)} :
    \E all_signalled \in {AllSignalled(wait_all, c.handles)} :
    \E native1 \in {[f \in Fences |-> nativeSignalled[f] \/ f \in completing]} :
    LET waited == c.r = "ok" /\ Len(c.handles) > 0
        marked == waited /\ ~waitFails
    IN  /\ \A f \in completing : fenceState[f] = "Armed" /\ ~nativeSignalled[f]
        /\ ~waited => completing = {} /\ ~waitFails
        /\ errAt # 0 => marked /\ ~all_signalled
        /\ marked => WaitSatisfied(c.handles, wait_all, native1)
        /\ \E m \in {IF marked
                     THEN MarkSignalled(batch, 1, fenceState, NoPolls, native1,
                                        all_signalled, errAt)
                     ELSE [r |-> "err", st |-> fenceState, polls |-> NoPolls]} :
           /\ fenceState' = m.st
           /\ nativeSignalled' = native1
           /\ fenceCall' = [op |-> "wait_fences",
                            r |-> IF ~waited THEN c.r ELSE m.r,
                            batch |-> batch, wait_all |-> wait_all, pre |-> fenceState,
                            native |-> nativeSignalled,
                            handles |-> c.handles,
                            polls |-> m.polls,
                            native_wait |-> waited, native_wait_ok |-> marked,
                            native_reset |-> FALSE]
           /\ UNCHANGED fenceOthers

\* The armed fences of a batch the device has not completed yet.
Pending(batch) == {f \in InBatch(batch) : fenceState[f] = "Armed" /\ ~nativeSignalled[f]}

\* The polls a call can make, one of which may be chosen to fail (0: none).
ResetPolls(batch) == {0} \cup {f \in InBatch(batch) : fenceState[f] = "Armed"}
WaitPolls(batch, wait_all) == IF wait_all THEN {0} ELSE {0} \cup InBatch(batch)

FenceNext ==
    \/ \E f \in Fences : Submit(f)
    \/ \E f \in Fences : DeviceSignal(f)
    \/ \E f \in Fences : \E errAt \in {0, f} : UpdateArmedFenceState(f, errAt)
    \/ \E batch \in Batches, resetFails \in BOOLEAN :
          \E errAt \in ResetPolls(batch) : ResetFences(batch, errAt, resetFails)
    \/ \E batch \in Batches, wait_all \in BOOLEAN, waitFails \in BOOLEAN :
          \E completing \in SUBSET Pending(batch), errAt \in WaitPolls(batch, wait_all) :
              WaitFences(batch, wait_all, completing, waitFails, errAt)

(***************************************************************************)
(* PhysicalDevice.  The capability snapshot is what collect_info gathers   *)
(* from the adapter; create_device consumes the PhysicalDevice.            *)
(***************************************************************************)
MaxQueueRequests == 2
\* the counts a (family index, count) pair asks for
QueueCounts == {1, 2}
\* queue_count of the adapter's queue families (indices 0 and 1)
QueueFamilies == <<2, 1>>

FeatureNames == {"BufferDeviceAddress", "DisplayTiming", "ScalarBlockLayout",
                 "SurfacePresentation"}
KHR_SWAPCHAIN == "VK_KHR_swapchain"
GOOGLE_DISPLAY_TIMING == "VK_GOOGLE_display_timing"
EXT_SCALAR_BLOCK_LAYOUT == "VK_EXT_scalar_block_layout"
KHR_BUFFER_DEVICE_ADDRESS == "VK_KHR_buffer_device_address"
DeviceExtensions == {KHR_SWAPCHAIN, GOOGLE_DISPLAY_TIMING, EXT_SCALAR_BLOCK_LAYOUT,
                     KHR_BUFFER_DEVICE_ADDRESS}

\* An adapter under an instance: the instance's API tier (vk1_2), whether the
\* extended queries exist (vk1_1 or VK_KHR_get_physical_device_properties2),
\* the device extensions, and the two feature bits as the driver reports them
\* (in the tier-2 block when vk1_2, in the extension's block otherwise).
Hardware ==
    {h \in [vk1_2 : BOOLEAN, props2 : BOOLEAN, extensions : SUBSET DeviceExtensions,
            scalar_block_layout : BOOLEAN, buffer_device_address : BOOLEAN] :
        h.vk1_2 => h.props2}

\* collect_info: the tier-2 feature bits come from the native block (vk1_2) or
\* are copied from the extension's block, which is queried only when the
\* extension is listed; without extended queries they stay 0.
CollectInfo(h) ==
    [extensions |-> h.extensions,
     queue_families |-> QueueFamilies,
     scalar_block_layout |->
        IF h.vk1_2 THEN h.scalar_block_layout
        ELSE h.props2 /\ EXT_SCALAR_BLOCK_LAYOUT \in h.extensions /\ h.scalar_block_layout,
     buffer_device_address |->
        IF h.vk1_2 THEN h.buffer_device_address
        ELSE h.props2 /\ KHR_BUFFER_DEVICE_ADDRESS \in h.extensions
             /\ h.buffer_device_address]

\* A queue request: (family index, count) pairs.
QueuePairs == (0..Len(QueueFamilies)) \X QueueCounts
QueueRequests == UNION {[1..n -> QueuePairs] : n \in 0..MaxQueueRequests}

\* Errors create_device returns: what failed and the name the message carries.
PdError(class, name, family) == [class |-> class, name |-> name, family |-> family]
NoError == PdError("none", "", -1)

Contains(seq, x) == \E i \in DOMAIN seq : seq[i] = x

\* Vec::resize(n, value)
Resize(seq, n, value) ==
    IF n <= Len(seq) THEN SubSeq(seq, 1, n)
    ELSE seq \o [i \in 1..(n - Len(seq)) |-> value]

\* create_device, line 57, compared against the cumulative count of the pairs so far.
QueueCountNotCumulative(len, count) == count

\* create_device, line 57: `priorities.len() + count`
QueueCount(len, count) == len + count

\* create_device, lines 51-65: priorities maps a family index to its priorities.
RECURSIVE CollectQueues(_, _, _, _)
CollectQueues(families, reqs, i, priorities) ==
    IF i > Len(reqs) THEN [r |-> "ok", error |-> NoError, priorities |-> priorities]
    ELSE LET family_idx == reqs[i][1]
             count == reqs[i][2]
             old == IF family_idx \in DOMAIN priorities THEN priorities[family_idx]
                    ELSE <<>>
             queue_count == QueueCount(Len(old), count)
         IN  IF family_idx + 1 > Len(families)
             THEN [r |-> "err", error |-> PdError("queue family not found", "", family_idx),
                   priorities |-> priorities]
             ELSE IF ~(queue_count <= families[family_idx + 1])
             THEN [r |-> "err", error |-> PdError("too many queues", "", family_idx),
                   priorities |-> priorities]
             ELSE CollectQueues(families, reqs, i + 1,
                      [f \in DOMAIN priorities \cup {family_idx} |->
                          IF f = family_idx THEN Resize(old, queue_count, "1.0")
                          ELSE priorities[f]])

\* create_device, lines 67-74: one DeviceQueueCreateInfo per entry of the map
QueueCreateInfos(priorities) ==
    {[queue_family_index |-> f, queue_priorities |-> priorities[f]] :
        f \in DOMAIN priorities}

\* require_ext that accepts an extension the adapter does not list.
RequireExt_AcceptMissing(snap, extensions, ext) ==
    [ok |-> TRUE, extensions |-> extensions]

\* the require_ext closure, lines 82-93: the extension must be supported; it is
\* pushed on the list only `if extensions.contains(..)`.
RequireExt(snap, extensions, ext) ==
    [ok |-> ext \in snap.extensions,
     extensions |-> IF ext \in snap.extensions /\ Contains(extensions, ext)
                    THEN Append(extensions, ext) ELSE extensions]

\* The outcome of filling the feature requirements.
Filled(r, error, sbl, bda, extensions, remaining) ==
    [r |-> r, error |-> error, include_features_v1_2 |-> sbl \/ bda,
     include_features_sbl |-> sbl, include_features_bda |-> bda,
     extensions |-> extensions, requested_features |-> remaining]

\* create_device, lines 104-136
FillFeatureRequirements(snap, requested) ==
    LET sp == IF "SurfacePresentation" \in requested
              THEN RequireExt(snap, <<>>, KHR_SWAPCHAIN)
              ELSE [ok |-> TRUE, extensions |-> <<>>]
        dt == IF "DisplayTiming" \in requested
              THEN RequireExt(snap, sp.extensions, GOOGLE_DISPLAY_TIMING)
              ELSE [ok |-> TRUE, extensions |-> sp.extensions]
        sbl == "ScalarBlockLayout" \in requested
        bda == "BufferDeviceAddress" \in requested
    IN  IF ~sp.ok
        THEN Filled("err", PdError("feature", "SurfacePresentation", -1), FALSE, FALSE,
                    sp.extensions, requested \ {"SurfacePresentation"})
        ELSE IF sbl /\ ~snap.scalar_block_layout
        THEN Filled("err", PdError("feature", "ScalarBlockLayout", -1), FALSE, FALSE,
                    sp.extensions, requested \ {"SurfacePresentation", "ScalarBlockLayout"})
        ELSE IF bda /\ ~snap.buffer_device_address
        THEN Filled("err", PdError("feature", "BufferDeviceAddress", -1), sbl, FALSE,
                    sp.extensions,
                    requested \ {"SurfacePresentation", "ScalarBlockLayout",
                                 "BufferDeviceAddress"})
        ELSE IF ~dt.ok
        THEN Filled("err", PdError("feature", "DisplayTiming", -1), sbl, bda,
                    dt.extensions, requested \ FeatureNames)
        ELSE Filled("ok", NoError, sbl, bda, dt.extensions, requested \ FeatureNames)

\* PreventDuplicates that keeps every block that gathered bits.
PreventDuplicates_KeepAll(vk1_2, f) == f

\* PreventDuplicates with the two branches exchanged.
PreventDuplicates_Swapped(vk1_2, f) ==
    IF ~vk1_2
    THEN [f EXCEPT !.include_features_sbl = FALSE, !.include_features_bda = FALSE]
    ELSE [f EXCEPT !.include_features_v1_2 = FALSE]

\* create_device, lines 140-146: "Prevent requiring duplicate blocks"
PreventDuplicates(vk1_2, f) ==
    IF vk1_2
    THEN [f EXCEPT !.include_features_sbl = FALSE, !.include_features_bda = FALSE]
    ELSE [f EXCEPT !.include_features_v1_2 = FALSE]

\* create_device, lines 148-159: the blocks pushed on the creation request, in
\* order; an extension's block is pushed after require_ext accepted it.
RequireBlocks(snap, f) ==
    LET b0 == IF f.include_features_v1_2 THEN <<"features_v1_2">> ELSE <<>>
        sbl == IF f.include_features_sbl
               THEN RequireExt(snap, f.extensions, EXT_SCALAR_BLOCK_LAYOUT)
               ELSE [ok |-> TRUE, extensions |-> f.extensions]
        b1 == IF f.include_features_sbl THEN Append(b0, "features_sbl") ELSE b0
        bda == IF f.include_features_bda
               THEN RequireExt(snap, sbl.extensions, KHR_BUFFER_DEVICE_ADDRESS)
               ELSE [ok |-> TRUE, extensions |-> sbl.extensions]
        b2 == IF f.include_features_bda THEN Append(b1, "features_bda") ELSE b1
    IN  IF ~sbl.ok
        THEN [r |-> "err", error |-> PdError("extension", EXT_SCALAR_BLOCK_LAYOUT, -1),
              blocks |-> b0, extensions |-> sbl.extensions]
        ELSE IF ~bda.ok
        THEN [r |-> "err", error |-> PdError("extension", KHR_BUFFER_DEVICE_ADDRESS, -1),
              blocks |-> b1, extensions |-> bda.extensions]
        ELSE [r |-> "ok", error |-> NoError, blocks |-> b2, extensions |-> bda.extensions]

\* What create_device did: its result, the creation request it assembled so
\* far, and whether it called the native device creation.
PdResult(r, error, queues, blocks, extensions, native) ==
    [r |-> r, error |-> error, queue_create_infos |-> queues, blocks |-> blocks,
     extensions |-> extensions, native_called |-> native]

\* PhysicalDevice::create_device.  queryFails: queues.query returns an error;
\* nativeFails: the native device creation does.
CreateDeviceOp(snap, vk1_2, features, queues, queryFails, nativeFails) ==
    IF queryFails
    THEN PdResult("err", PdError("queues query", "", -1), {}, <<>>, <<>>, FALSE)
    ELSE The({
      IF q.r # "ok" THEN PdResult("err", q.error, {}, <<>>, <<>>, FALSE)
      ELSE The({
        IF f.r # "ok"
        THEN PdResult("err", f.error, QueueCreateInfos(q.priorities), <<>>,
                      f.extensions, FALSE)
        ELSE The({
          IF b.r # "ok"
          THEN PdResult("err", b.error, QueueCreateInfos(q.priorities), b.blocks,
                        b.extensions, FALSE)
          ELSE IF f.requested_features # {}
          THEN PdResult("err", PdError("features unresolved", "", -1),
                        QueueCreateInfos(q.priorities), b.blocks, b.extensions, FALSE)
          ELSE PdResult(IF nativeFails THEN "err" ELSE "ok",
                        IF nativeFails THEN PdError("native", "", -1) ELSE NoError,
                        QueueCreateInfos(q.priorities), b.blocks, b.extensions, TRUE)
          : b \in {RequireBlocks(snap, PreventDuplicates(vk1_2, f))} })
        : f \in {FillFeatureRequirements(snap, features)} })
      : q \in {CollectQueues(snap.queue_families, queues, 1, <<>>)} })

PhysInit ==
    /\ hw \in Hardware
    /\ pdCall = [op |-> "new"]

\* PhysicalDevice::create_device (it takes `self`: one call per PhysicalDevice)
CreateDevice(features, queues, queryFails, nativeFails) ==
    /\ pdCall.op = "new"
    /\ queryFails => queues = <<>> /\ ~nativeFails
    /\ \E res \in {CreateDeviceOp(CollectInfo(hw), hw.vk1_2, features, queues,
                                  queryFails, nativeFails)} :
        /\ nativeFails => res.native_called
        /\ pdCall' = [op |-> "create_device", features |-> features,
                      queues |-> queues, query_ok |-> ~queryFails, res |-> res]
    /\ UNCHANGED <<hw, physOthers>>

PhysNext ==
    /\ pdCall.op = "new"
    /\ \E features \in SUBSET FeatureNames, queues \in QueueRequests,
          queryFails \in BOOLEAN, nativeFails \in BOOLEAN :
           CreateDevice(features, queues, queryFails, nativeFails)

(***************************************************************************)
(* Buffers, images and the sub-allocator.  Threads share one Device; each  *)
(* runs one call at a time, a step being one native call, one              *)
(* sub-allocator call, or taking the allocator's Mutex.  A native handle   *)
(* and the memory block granted for it carry the same id.                  *)
(***************************************************************************)
NumThreads == 2
MaxBuffers == 2
NumImages == 1

Threads == 1..NumThreads
BufferIds == 1..MaxBuffers
\* Images are created elsewhere; they exist from the start, memory bound.
ImageIds == (MaxBuffers + 1)..(MaxBuffers + NumImages)
ObjectIds == BufferIds \cup ImageIds

\* The steps at which a thread is inside a sub-allocator call.
InAllocator == {"alloc", "dealloc"}
\* The steps at which a thread waits for the allocator's Mutex.
AtLock == {"create_lock", "destroy_lock"}

\* vk::Bool32 values of features.v1_2.buffer_device_address
Bool32 == {0, 1}

MemInit ==
    /\ deviceFeatures \in {[buffer_device_address |-> b] : b \in Bool32}
    /\ pc = [t \in Threads |-> "idle"]
    /\ local = [t \in Threads |-> [op |-> "none", id |-> 0]]
    /\ lock = 0
    /\ nativeAlive = ImageIds
    /\ destroyed = [h \in ObjectIds |-> 0]
    /\ outstanding = ImageIds
    /\ owned = ImageIds
    /\ nextId = 1
    /\ memCall = [t \in Threads |-> [op |-> "none", r |-> "ok", id |-> 0, stage |-> ""]]

\* The result a thread's call returned.
CallResult(op, r, id, stage) == [op |-> op, r |-> r, id |-> id, stage |-> stage]

\* The guard of line 257 armed after the bind.
DeferredDestroy_DisarmedBeforeBind(alive, count, id, stage) ==
    IF stage = "bind" THEN [alive |-> alive, count |-> count]
    ELSE [alive |-> alive \ {id}, count |-> [count EXCEPT ![id] = @ + 1]]

\* create_buffer_impl, line 257: the handle is wrapped with
\* `with_defer(|handle| logical.destroy_buffer(handle, None))`, which runs when
\* the function returns early, at whatever stage.
DeferredDestroy(alive, count, id, stage) ==
    [alive |-> alive \ {id}, count |-> [count EXCEPT ![id] = @ + 1]]

\* create_buffer_impl with the MutexGuard living until the memory is bound.
GuardDroppedAfter_Bind(op) == IF op = "create_buffer" THEN "bind" ELSE "dealloc"

\* The step after which the MutexGuard is dropped: the end of the block of
\* lines 270-294 in create_buffer_impl, the end of the statement of lines
\* 319-323 / 329-333 in destroy_buffer / destroy_image.
GuardDroppedAfter(op) == IF op = "create_buffer" THEN "alloc" ELSE "dealloc"

\* destroy_buffer / destroy_image destroying the native handle first.
DestroyStep_NativeFirst(step) ==
    CASE step = "start" -> "destroy_native"
      [] step = "destroy_native" -> "destroy_lock"
      [] step = "destroy_lock" -> "dealloc"
      [] step = "dealloc" -> "idle"

\* destroy_buffer / destroy_image, lines 318-336: lock, dealloc, then the
\* native destroy.
DestroyStep(step) ==
    CASE step = "start" -> "destroy_lock"
      [] step = "destroy_lock" -> "dealloc"
      [] step = "dealloc" -> "destroy_native"
      [] step = "destroy_native" -> "idle"

\* The lock after thread t finished `step` of call `op`.
Unlock(t, op, step) == IF lock = t /\ GuardDroppedAfter(op) = step THEN 0 ELSE lock

Some(x) == [some |-> x]

\* The buffer usages a caller asks for (BufferInfo::usage) and the memory usage
\* it passes: None from create_buffer, Some(..) from create_mappable_buffer.
BufferUsages == {{"TRANSFER_SRC"}, {"STORAGE", "SHADER_DEVICE_ADDRESS"}}
MemoryUsages == {None, Some({"UPLOAD"})}

\* CheckDeviceAddress that adds the flag without looking at the feature bit.
CheckDeviceAddress_Unchecked(feats, usage, memory_usage) ==
    LET has == "SHADER_DEVICE_ADDRESS" \in usage
        mu == IF memory_usage = None THEN {} ELSE memory_usage.some
    IN  [ok |-> TRUE, has_device_address |-> has,
         memory_usage |-> IF has THEN mu \cup {"DEVICE_ADDRESS"} ELSE mu]

\* create_buffer_impl, lines 237-248: the memory usage defaults to empty; a
\* usage with SHADER_DEVICE_ADDRESS needs the feature bit and adds
\* DEVICE_ADDRESS to the memory usage.
CheckDeviceAddress(feats, usage, memory_usage) ==
    LET has == "SHADER_DEVICE_ADDRESS" \in usage
        mu == IF memory_usage = None THEN {} ELSE memory_usage.some
    IN  IF has /\ feats.buffer_device_address = 0
        THEN [ok |-> FALSE, has_device_address |-> has, memory_usage |-> mu]
        ELSE [ok |-> TRUE, has_device_address |-> has,
              memory_usage |-> IF has THEN mu \cup {"DEVICE_ADDRESS"} ELSE mu]

\* logical.get_buffer_device_address (line 300): the device's address of a
\* buffer created with the address usage; never 0.
GetBufferDeviceAddress(id) == 65536 * id
\* DeviceAddress::new: None for the address 0.
DeviceAddressNew(address) == IF address = 0 THEN None ELSE Some(address)

\* create_buffer_impl, lines 298-304: the address recorded in the buffer
BufferAddress(has_device_address, id) ==
    IF has_device_address THEN DeviceAddressNew(GetBufferDeviceAddress(id)) ELSE None

\* Device::create_buffer / create_mappable_buffer enter create_buffer_impl
\* (lines 216-248); the capability check comes before every native call.
BeginCreate(t, usage, memory_usage) ==
    /\ pc[t] = "idle"
    /\ \E e \in {CheckDeviceAddress(deviceFeatures, usage, memory_usage)} :
          IF e.ok
          THEN /\ nextId <= MaxBuffers
               /\ pc' = [pc EXCEPT ![t] = "create_native"]
               /\ local' = [local EXCEPT
                               ![t] = [op |-> "create_buffer", id |-> nextId,
                                       usage |-> usage,
                                       has_device_address |-> e.has_device_address,
                                       memory_usage |-> e.memory_usage,
                                       request |-> None, address |-> None]]
               /\ nextId' = nextId + 1
               /\ UNCHANGED memCall
          ELSE /\ local' = [local EXCEPT
                               ![t] = [op |-> "create_buffer", id |-> 0,
                                       usage |-> usage,
                                       has_device_address |-> e.has_device_address,
                                       memory_usage |-> e.memory_usage,
                                       request |-> None, address |-> None]]
               /\ memCall' = [memCall EXCEPT
                                 ![t] = CallResult("create_buffer", "err", 0, "capability")]
               /\ UNCHANGED <<pc, nextId>>
    /\ UNCHANGED <<lock, nativeAlive, destroyed, outstanding, owned, deviceFeatures,
                   memOthers>>

\* create_buffer_impl, lines 250-257: logical.create_buffer
NativeCreate(t, fails) ==
    /\ pc[t] = "create_native"
    /\ IF fails
       THEN /\ pc' = [pc EXCEPT ![t] = "idle"]
            /\ memCall' = [memCall EXCEPT
                              ![t] = CallResult("create_buffer", "err", 0, "create")]
            /\ UNCHANGED nativeAlive
       ELSE /\ pc' = [pc EXCEPT ![t] = "create_lock"]
            /\ nativeAlive' = nativeAlive \cup {local[t].id}
            /\ UNCHANGED memCall
    /\ UNCHANGED <<local, lock, destroyed, outstanding, owned, nextId, deviceFeatures,
                   memOthers>>

\* `self.inner.allocator.lock().unwrap()`, lines 287, 319-322 and 329-332
Lock(t) ==
    /\ pc[t] \in AtLock
    /\ lock = 0
    /\ lock' = t
    /\ pc' = [pc EXCEPT ![t] = IF pc[t] = "create_lock" THEN "alloc"
                                ELSE DestroyStep("destroy_lock")]
    /\ UNCHANGED <<local, nativeAlive, destroyed, outstanding, owned, nextId, memCall,
                   deviceFeatures, memOthers>>

\* create_buffer_impl, lines 288-294: allocator.alloc / alloc_with_dedicated;
\* on an error the function returns through the deferred destroy.
Alloc(t, fails) ==
    /\ pc[t] = "alloc"
    /\ outstanding' = IF fails THEN outstanding ELSE outstanding \cup {local[t].id}
    /\ lock' = Unlock(t, "create_buffer", "alloc")
    /\ pc' = [pc EXCEPT ![t] = IF fails THEN "unwind_alloc" ELSE "bind"]
    /\ local' = [local EXCEPT ![t].request = Some([usage |-> local[t].memory_usage])]
    /\ UNCHANGED <<nativeAlive, destroyed, owned, nextId, memCall, deviceFeatures,
                   memOthers>>

\* create_buffer_impl, line 296: logical.bind_buffer_memory; lines 298-315 on
\* success: the address is queried if the usage asks for one, the handle is
\* disarmed and moves into the returned buffer.
Bind(t, fails) ==
    /\ pc[t] = "bind"
    /\ lock' = Unlock(t, "create_buffer", "bind")
    /\ IF fails
       THEN /\ pc' = [pc EXCEPT ![t] = "unwind_bind"]
            /\ UNCHANGED <<local, owned, memCall>>
       ELSE /\ pc' = [pc EXCEPT ![t] = "idle"]
            /\ local' = [local EXCEPT
                            ![t].address = BufferAddress(local[t].has_device_address,
                                                         local[t].id)]
            /\ owned' = owned \cup {local[t].id}
            /\ memCall' = [memCall EXCEPT
                              ![t] = CallResult("create_buffer", "ok", local[t].id, "")]
    /\ UNCHANGED <<nativeAlive, destroyed, outstanding, nextId, deviceFeatures, memOthers>>

\* create_buffer_impl returning an error after line 257: the locals are
\* dropped, the deferred destroy runs, the error is returned.
Unwind(t) ==
    /\ pc[t] \in {"unwind_alloc", "unwind_bind"}
    /\ \E stage \in {IF pc[t] = "unwind_alloc" THEN "alloc" ELSE "bind"} :
       \E d \in {DeferredDestroy(nativeAlive, destroyed, local[t].id, stage)} :
          /\ nativeAlive' = d.alive
          /\ destroyed' = d.count
          /\ memCall' = [memCall EXCEPT
                            ![t] = CallResult("create_buffer", "err", local[t].id, stage)]
    /\ pc' = [pc EXCEPT ![t] = "idle"]
    /\ UNCHANGED <<local, lock, outstanding, owned, nextId, deviceFeatures,
                   memOthers>>

\* Device::destroy_buffer / destroy_image are entered with a handle and its
\* block, moved out of the buffer or image that owned them.
BeginDestroy(t, id) ==
    /\ pc[t] = "idle"
    /\ id \in owned
    /\ owned' = owned \ {id}
    /\ local' = [local EXCEPT
                    ![t] = [op |-> IF id \in ImageIds THEN "destroy_image"
                                   ELSE "destroy_buffer",
                            id |-> id]]
    /\ pc' = [pc EXCEPT ![t] = DestroyStep("start")]
    /\ UNCHANGED <<lock, nativeAlive, destroyed, outstanding, nextId, memCall,
                   deviceFeatures, memOthers>>

\* The call of thread t returns once its last step is done.
Finish(t, next) ==
    IF next = "idle"
    THEN [memCall EXCEPT ![t] = CallResult(local[t].op, "ok", local[t].id, "")]
    ELSE memCall

\* destroy_buffer / destroy_image, lines 319-323 and 329-333: allocator.dealloc
Dealloc(t) ==
    /\ pc[t] = "dealloc"
    /\ outstanding' = outstanding \ {local[t].id}
    /\ lock' = Unlock(t, local[t].op, "dealloc")
    /\ pc' = [pc EXCEPT ![t] = DestroyStep("dealloc")]
    /\ memCall' = Finish(t, DestroyStep("dealloc"))
    /\ UNCHANGED <<local, nativeAlive, destroyed, owned, nextId, deviceFeatures,
                   memOthers>>

\* destroy_buffer line 325 / destroy_image line 335: the native destroy
NativeDestroy(t) ==
    /\ pc[t] = "destroy_native"
    /\ nativeAlive' = nativeAlive \ {local[t].id}
    /\ destroyed' = [destroyed EXCEPT ![local[t].id] = @ + 1]
    /\ pc' = [pc EXCEPT ![t] = DestroyStep("destroy_native")]
    /\ memCall' = Finish(t, DestroyStep("destroy_native"))
    /\ UNCHANGED <<local, lock, outstanding, owned, nextId, deviceFeatures,
                   memOthers>>

\* Device::wait_idle (lines 106-108, 380-385) and Device::wait_fences (lines
\* 199-203) block in a native wait; neither touches the allocator.
BeginWait(t, op) ==
    /\ pc[t] = "idle"
    /\ local' = [local EXCEPT ![t] = [op |-> op, id |-> 0]]
    /\ pc' = [pc EXCEPT ![t] = "native_wait"]
    /\ UNCHANGED <<lock, nativeAlive, destroyed, outstanding, owned, nextId, memCall,
                   deviceFeatures, memOthers>>

\* The native wait returns.
EndWait(t, fails) ==
    /\ pc[t] = "native_wait"
    /\ pc' = [pc EXCEPT ![t] = "idle"]
    /\ memCall' = [memCall EXCEPT
                      ![t] = CallResult(local[t].op, IF fails THEN "err" ELSE "ok", 0, "")]
    /\ UNCHANGED <<local, lock, nativeAlive, destroyed, outstanding, owned, nextId,
                   deviceFeatures,
                   memOthers>>

MemNext ==
    \E t \in Threads :
        \/ \E usage \in BufferUsages, memory_usage \in MemoryUsages :
              BeginCreate(t, usage, memory_usage)
        \/ \E fails \in BOOLEAN : NativeCreate(t, fails)
        \/ Lock(t)
        \/ \E fails \in BOOLEAN : Alloc(t, fails)
        \/ \E fails \in BOOLEAN : Bind(t, fails)
        \/ Unwind(t)
        \/ \E id \in ObjectIds : BeginDestroy(t, id)
        \/ Dealloc(t)
        \/ NativeDestroy(t)
        \/ \E op \in {"wait_idle", "wait_fences"} : BeginWait(t, op)
        \/ \E fails \in BOOLEAN : EndWait(t, fails)

(***************************************************************************)
(* Device and WeakDevice.  Device wraps Arc<Inner>, WeakDevice wraps        *)
(* Weak<Inner>; Inner is dropped when the last Arc goes, whatever the       *)
(* number of Weak values.  Fences, semaphores and buffers hold a WeakDevice.*)
(***************************************************************************)
MaxStrong == 3
MaxWeak == 2

\* The resources that are given a WeakDevice when they are created.
Holders == {"fence", "semaphore", "buffer"}

\* Device::new
RefInit ==
    /\ strong = 1
    /\ weak = [h \in Holders |-> 0]
    /\ teardown = <<>>
    /\ refCall = [op |-> "new", r |-> "device", strong_before |-> 0]

RefResult(op, r) == [op |-> op, r |-> r, strong_before |-> strong]

\* Drop for Inner with `self.wait_idle()?`-like propagation: a failed wait ends it.
InnerDrop_StopsAtFailedWait(waitFails) ==
    IF waitFails THEN <<[step |-> "wait_idle", r |-> "err"]>>
    ELSE <<[step |-> "wait_idle", r |-> "ok"], [step |-> "cleanup", r |-> "ok"]>>

\* Drop for Inner: `let _ = self.wait_idle();` then the allocator's cleanup.
InnerDrop(waitFails) ==
    <<[step |-> "wait_idle", r |-> IF waitFails THEN "err" ELSE "ok"],
      [step |-> "cleanup", r |-> "ok"]>>

\* Arc<Inner>: the value is dropped with the last strong reference.
LastOwner(count, weaks) == count = 1

\* Weak::upgrade that succeeds as long as the Weak exists.
UpgradeOp_AlwaysSome(count) == "some"

\* WeakDevice::upgrade: `self.0.upgrade().map(|inner| Device { inner })`
UpgradeOp(count) == IF count > 0 THEN "some" ELSE "none"

\* Device::clone
CloneDevice ==
    /\ strong > 0
    /\ strong < MaxStrong
    /\ strong' = strong + 1
    /\ refCall' = RefResult("clone", "device")
    /\ UNCHANGED <<weak, teardown, refOthers>>

\* Device::downgrade, called by create_fence, create_semaphore and
\* create_buffer_impl for the resource they return.
Downgrade(holder) ==
    /\ strong > 0
    /\ weak[holder] < MaxWeak
    /\ weak' = [weak EXCEPT ![holder] = @ + 1]
    /\ refCall' = RefResult("downgrade", "weak")
    /\ UNCHANGED <<strong, teardown, refOthers>>

\* WeakDevice::upgrade by a resource of this kind
Upgrade(holder) ==
    /\ weak[holder] > 0
    /\ \E res \in {UpgradeOp(strong)} :
          /\ res = "some" => strong < MaxStrong
          /\ strong' = IF res = "some" THEN strong + 1 ELSE strong
          /\ refCall' = RefResult("upgrade", res)
    /\ UNCHANGED <<weak, teardown, refOthers>>

\* A Device value is dropped; the last one drops Inner.
DropDevice(waitFails) ==
    /\ strong > 0
    /\ strong' = strong - 1
    /\ teardown' = IF LastOwner(strong, weak)
                   THEN teardown \o InnerDrop(waitFails)
                   ELSE teardown
    /\ ~LastOwner(strong, weak) => ~waitFails
    /\ refCall' = RefResult("drop", "unit")
    /\ UNCHANGED <<weak, refOthers>>

\* A resource is dropped, and its WeakDevice with it.
DropWeak(holder) ==
    /\ weak[holder] > 0
    /\ weak' = [weak EXCEPT ![holder] = @ - 1]
    /\ refCall' = RefResult("drop_weak", "unit")
    /\ UNCHANGED <<strong, teardown, refOthers>>

RefNext ==
    \/ CloneDevice
    \/ \E holder \in Holders : Downgrade(holder)
    \/ \E holder \in Holders : Upgrade(holder)
    \/ \E waitFails \in BOOLEAN : DropDevice(waitFails)
    \/ \E holder \in Holders : DropWeak(holder)

(***************************************************************************)
(* The event loop and the rendering thread (game/src/main.rs).  The        *)
(* rendering thread loops `while is_running { barrier.wait(); draw() }`;   *)
(* the event-loop thread runs handle_event for one event at a time.  A     *)
(* step is one access to the atomic, one critical section of the Mutex,    *)
(* one Condvar call, or one draw.                                          *)
(***************************************************************************)
MaxNotifies == 3

\* WaitStep that takes a wake-up as the signal, without looking at the flag
\* again (`if !*state` in place of `while !*state`).
WaitStep_NoRecheck(at, flag) ==
    CASE at = "wait_lock" -> "wait_check"
      [] at = "wait_check" -> IF ~flag THEN "wait_blocked" ELSE "wait_return"
      [] at = "wait_blocked" -> "wait_relock"
      [] at = "wait_relock" -> "wait_return"

\* LoopBarrier::wait, lines 192-198: lock, then `while !*state` around
\* condvar.wait, which gives the Mutex up while blocked and takes it again
\* before it returns; then `*state = false`.
WaitStep(at, flag) ==
    CASE at = "wait_lock" -> "wait_check"
      [] at = "wait_check" -> IF ~flag THEN "wait_blocked" ELSE "wait_return"
      [] at = "wait_blocked" -> "wait_relock"
      [] at = "wait_relock" -> "wait_check"

\* HandlerStep whose close request does not call notify.
HandlerStep_CloseWithoutNotify(event, at) ==
    CASE event = "redraw" /\ at = "start" -> "notify_set"
      [] event = "close" /\ at = "start" -> "store"
      [] event = "close" /\ at = "store" -> "exit"
      [] at = "notify_set" -> "notify_one"
      [] event = "redraw" /\ at = "notify_one" -> "idle"
      [] event = "close" /\ at = "notify_one" -> "exit"

\* handle_event, lines 156-166: RedrawRequested calls notify; CloseRequested
\* stores is_running = false, calls notify, then elwt.exit().  notify (lines
\* 200-203) sets the flag under the Mutex, then calls condvar.notify_one.
HandlerStep(event, at) ==
    CASE event = "redraw" /\ at = "start" -> "notify_set"
      [] event = "close" /\ at = "start" -> "store"
      [] event = "close" /\ at = "store" -> "notify_set"
      [] at = "notify_set" -> "notify_one"
      [] event = "redraw" /\ at = "notify_one" -> "idle"
      [] event = "close" /\ at = "notify_one" -> "exit"

\* The rendering thread has left its loop: is_running was false, or draw()
\* failed and the unwrap of line 136 panicked.
RenderDone == {"stopped", "panicked"}

LoopInit ==
    /\ is_running = TRUE
    /\ state = FALSE
    /\ stateLock = "none"
    /\ condvar = FALSE
    /\ minimized = FALSE
    /\ renderPc = "check_running"
    /\ eventPc = "idle"
    /\ handling = "none"
    /\ notifies = 0
    /\ waits = 0
    /\ draws = 0
    /\ lastReturn = 0
    /\ stopAt = None

\* line 133: `while is_running.load(Ordering::Acquire)`
CheckRunning ==
    /\ renderPc = "check_running"
    /\ renderPc' = IF is_running THEN "wait_lock" ELSE "stopped"
    /\ UNCHANGED <<is_running, state, stateLock, condvar, minimized, eventPc, handling,
                   notifies, waits, draws, lastReturn, stopAt, loopOthers>>

\* LoopBarrier::wait takes the Mutex: on entry (line 193), or inside
\* condvar.wait after a wake-up (line 195).
WaitLock ==
    /\ renderPc \in {"wait_lock", "wait_relock"}
    /\ stateLock = "none"
    /\ stateLock' = "rendering"
    /\ renderPc' = WaitStep(renderPc, state)
    /\ UNCHANGED <<is_running, state, condvar, minimized, eventPc, handling, notifies,
                   waits, draws, lastReturn, stopAt, loopOthers>>

\* LoopBarrier::wait, lines 194-195: the loop condition; condvar.wait unlocks
\* the Mutex and blocks in one step.
WaitCheck ==
    /\ renderPc = "wait_check"
    /\ renderPc' = WaitStep(renderPc, state)
    /\ IF renderPc' = "wait_blocked"
       THEN stateLock' = "none" /\ condvar' = TRUE
       ELSE UNCHANGED <<stateLock, condvar>>
    /\ UNCHANGED <<is_running, state, minimized, eventPc, handling, notifies, waits,
                   draws, lastReturn, stopAt, loopOthers>>

\* LoopBarrier::wait, lines 197-198: `*state = false`, the guard is dropped,
\* wait returns.
WaitReturn ==
    /\ renderPc = "wait_return"
    /\ state' = FALSE
    /\ stateLock' = "none"
    /\ waits' = waits + 1
    /\ lastReturn' = notifies
    /\ renderPc' = "draw"
    /\ UNCHANGED <<is_running, condvar, minimized, eventPc, handling, notifies, draws,
                   stopAt, loopOthers>>

\* Condvar::wait may wake up without a notification.
SpuriousWakeup ==
    /\ renderPc = "wait_blocked"
    /\ condvar
    /\ condvar' = FALSE
    /\ renderPc' = WaitStep(renderPc, state)
    /\ UNCHANGED <<is_running, state, stateLock, minimized, eventPc, handling, notifies,
                   waits, draws, lastReturn, stopAt, loopOthers>>

\* line 136: `renderer.draw().unwrap()`
Draw(fails) ==
    /\ renderPc = "draw"
    /\ renderPc' = IF fails THEN "panicked" ELSE "check_running"
    /\ draws' = IF fails THEN draws ELSE draws + 1
    /\ UNCHANGED <<is_running, state, stateLock, condvar, minimized, eventPc, handling,
                   notifies, waits, lastReturn, stopAt, loopOthers>>

\* handle_event, lines 156-158: RedrawRequested
RedrawRequested ==
    /\ eventPc = "idle"
    /\ notifies < MaxNotifies
    /\ IF ~minimized
       THEN /\ handling' = "redraw"
            /\ eventPc' = HandlerStep("redraw", "start")
       ELSE UNCHANGED <<handling, eventPc>>
    /\ UNCHANGED <<is_running, state, stateLock, condvar, minimized, renderPc, notifies,
                   waits, draws, lastReturn, stopAt, loopOthers>>

\* handle_event, lines 159-161: Resized
Resized(zero) ==
    /\ eventPc = "idle"
    /\ minimized' = zero
    /\ UNCHANGED <<is_running, state, stateLock, condvar, renderPc, eventPc, handling,
                   notifies, waits, draws, lastReturn, stopAt, loopOthers>>

\* handle_event, line 162: CloseRequested arrives
CloseRequested ==
    /\ eventPc = "idle"
    /\ handling' = "close"
    /\ eventPc' = HandlerStep("close", "start")
    /\ UNCHANGED <<is_running, state, stateLock, condvar, minimized, renderPc, notifies,
                   waits, draws, lastReturn, stopAt, loopOthers>>

\* line 163: `is_running.store(false, Ordering::Release)`
StoreNotRunning ==
    /\ eventPc = "store"
    /\ is_running' = FALSE
    /\ stopAt' = [waits |-> waits, draws |-> draws]
    /\ eventPc' = HandlerStep(handling, "store")
    /\ UNCHANGED <<state, stateLock, condvar, minimized, renderPc, handling, notifies,
                   waits, draws, lastReturn, loopOthers>>

\* LoopBarrier::notify, line 201: `*self.state.lock().unwrap() = true`
NotifySet ==
    /\ eventPc = "notify_set"
    /\ stateLock = "none"
    /\ state' = TRUE
    /\ notifies' = notifies + 1
    /\ eventPc' = HandlerStep(handling, "notify_set")
    /\ UNCHANGED <<is_running, stateLock, condvar, minimized, renderPc, handling, waits,
                   draws, lastReturn, stopAt, loopOthers>>

\* LoopBarrier::notify, line 202: condvar.notify_one wakes the thread blocked
\* in condvar.wait, if there is one; the handler then goes on.
NotifyOne ==
    /\ eventPc = "notify_one"
    /\ IF condvar
       THEN condvar' = FALSE /\ renderPc' = WaitStep(renderPc, state)
       ELSE UNCHANGED <<condvar, renderPc>>
    /\ eventPc' = HandlerStep(handling, "notify_one")
    /\ handling' = IF eventPc' = "idle" THEN "none" ELSE handling
    /\ UNCHANGED <<is_running, state, stateLock, minimized, notifies, waits, draws,
                   lastReturn, stopAt, loopOthers>>

\* lines 165 and 175-179: elwt.exit() ends the event loop, run() returns and
\* the main thread joins the rendering thread.
Join ==
    /\ eventPc = "exit"
    /\ renderPc \in RenderDone
    /\ eventPc' = "joined"
    /\ UNCHANGED <<is_running, state, stateLock, condvar, minimized, renderPc, handling,
                   notifies, waits, draws, lastReturn, stopAt, loopOthers>>

\* The steps of the rendering thread that the scheduler takes.
RenderStep ==
    CheckRunning \/ WaitLock \/ WaitCheck \/ WaitReturn \/ (\E fails \in BOOLEAN : Draw(fails))
\* The steps of handle_event once an event has arrived, and the join.
HandlerRuns == StoreNotRunning \/ NotifySet \/ NotifyOne \/ Join

LoopNext ==
    \/ CheckRunning
    \/ WaitLock
    \/ WaitCheck
    \/ WaitReturn
    \/ SpuriousWakeup
    \/ \E fails \in BOOLEAN : Draw(fails)
    \/ RedrawRequested
    \/ \E zero \in BOOLEAN : Resized(zero)
    \/ CloseRequested
    \/ StoreNotRunning
    \/ NotifySet
    \/ NotifyOne
    \/ Join

\* The adapter the specifications of the other components start with.
DefaultHardware ==
    [vk1_2 |-> TRUE, props2 |-> TRUE, extensions |-> DeviceExtensions,
     scalar_block_layout |-> TRUE, buffer_device_address |-> TRUE]

Init ==
    /\ MeshInit /\ FenceInit /\ PhysInit /\ MemInit /\ RefInit /\ LoopInit
    /\ hw = DefaultHardware /\ deviceFeatures.buffer_device_address = 1

\* A component's specification starts the other components in one state.
FenceSpecInit ==
    /\ MeshInit /\ FenceInit /\ PhysInit /\ MemInit /\ RefInit /\ LoopInit
    /\ overflowChecks /\ maxBufferSize = 1048576 /\ hw = DefaultHardware
    /\ deviceFeatures.buffer_device_address = 1
PhysSpecInit ==
    /\ MeshInit /\ FenceInit /\ PhysInit /\ MemInit /\ RefInit /\ LoopInit
    /\ overflowChecks /\ maxBufferSize = 1048576
    /\ deviceFeatures.buffer_device_address = 1
MemSpecInit ==
    /\ MeshInit /\ FenceInit /\ PhysInit /\ MemInit /\ RefInit /\ LoopInit
    /\ overflowChecks /\ maxBufferSize = 1048576 /\ hw = DefaultHardware
RefSpecInit ==
    /\ MeshInit /\ FenceInit /\ PhysInit /\ MemInit /\ RefInit /\ LoopInit
    /\ overflowChecks /\ maxBufferSize = 1048576 /\ hw = DefaultHardware
    /\ deviceFeatures.buffer_device_address = 1
LoopSpecInit ==
    /\ MeshInit /\ FenceInit /\ PhysInit /\ MemInit /\ RefInit /\ LoopInit
    /\ overflowChecks /\ maxBufferSize = 1048576 /\ hw = DefaultHardware
    /\ deviceFeatures.buffer_device_address = 1

MeshSpec == Init /\ [][MeshNext]_vars
FenceSpec == FenceSpecInit /\ [][FenceNext]_vars
PhysSpec == PhysSpecInit /\ [][PhysNext]_vars
MemSpec == MemSpecInit /\ [][MemNext]_vars
RefSpec == RefSpecInit /\ [][RefNext]_vars
\* The scheduler runs a thread that can take a step; a started draw() returns;
\* nothing says that an event arrives or that a spurious wake-up happens.
LoopSpec == LoopSpecInit /\ [][LoopNext]_vars
LoopFairSpec == LoopSpec /\ WF_vars(RenderStep) /\ WF_vars(HandlerRuns)

(***************************************************************************)
(* Properties of the MeshManager.                                          *)
(***************************************************************************)
\* The GPU mesh records alive: those the caller holds and those registered.
LiveRecords ==
    {[at |-> <<"held", k>>, mesh |-> held[k]] : k \in DOMAIN held}
    \cup {[at |-> <<"registry", i>>, mesh |-> registry[i]] :
            i \in {j \in DOMAIN registry : registry[j] # None}}
\* Their non-empty ranges, each with the place that holds it.
LiveVertexRanges ==
    UNION {{[at |-> <<l.at, j>>, range |-> l.mesh.vertex_attribute_ranges[j].range] :
              j \in {n \in DOMAIN l.mesh.vertex_attribute_ranges :
                        ~IsEmpty(l.mesh.vertex_attribute_ranges[n].range)}} :
           l \in LiveRecords}
LiveIndexRanges ==
    {[at |-> l.at, range |-> l.mesh.indices_range] :
        l \in {x \in LiveRecords : ~IsEmpty(x.mesh.indices_range)}}

Disjoint(r1, r2) == r1.end <= r2.start \/ r2.end <= r1.start
PairwiseDisjoint(live) ==
    \A x, y \in live : x.at # y.at => Disjoint(x.range, y.range)
Within(live, cap) == \A x \in live : 0 <= x.range.start /\ x.range.end <= cap

\* C1: after any sequence of upload_mesh, insert and remove, the non-empty
\* ranges of the live GPU mesh records of one allocator are pairwise disjoint
\* and lie within [0, capacity of that allocator).
C1_LiveRangesDisjointWithinCapacity ==
    meshStatus = "ok" =>
        /\ PairwiseDisjoint(LiveVertexRanges)
        /\ PairwiseDisjoint(LiveIndexRanges)
        /\ Within(LiveVertexRanges, vertex_alloc.cap)
        /\ Within(LiveIndexRanges, index_alloc.cap)

\* Nothing that allocator a held allocated below its capacity is free in b.
StaysAllocated(a, b) ==
    \A i \in DOMAIN b.free :
        \/ b.free[i].start >= a.cap
        \/ \E j \in DOMAIN a.free :
              /\ a.free[j].start <= b.free[i].start
              /\ Min(b.free[i].end, a.cap) <= a.free[j].end
\* The step of a successful upload_mesh leaves every live range where it was,
\* allocated, and apart from the ranges of the record it returns.
KeepsRanges(a, b, live, newRanges) ==
    /\ StaysAllocated(a, b)
    /\ \A x \in live : \A i \in DOMAIN b.free : Disjoint(x.range, b.free[i])
    /\ \A x \in live : \A r \in newRanges : IsEmpty(r) \/ Disjoint(x.range, r)

\* C2: when realloc grows the vertex or the index allocator, every range
\* allocated before keeps its offsets and stays allocated, and the ranges
\* allocated after the growth do not overlap it.
C2_GrowthKeepsRanges ==
    [][/\ (vertex_alloc'.cap > vertex_alloc.cap) =>
            /\ LiveVertexRanges \subseteq LiveVertexRanges'
            /\ KeepsRanges(vertex_alloc, vertex_alloc', LiveVertexRanges,
                  IF meshCall'.r = "ok"
                  THEN {meshCall'.record.vertex_attribute_ranges[j].range :
                          j \in DOMAIN meshCall'.record.vertex_attribute_ranges}
                  ELSE {})
       /\ (index_alloc'.cap > index_alloc.cap) =>
            /\ LiveIndexRanges \subseteq LiveIndexRanges'
            /\ KeepsRanges(index_alloc, index_alloc', LiveIndexRanges,
                  IF meshCall'.r = "ok" THEN {meshCall'.record.indices_range} ELSE {})
      ]_vars

\* The last call grew the buffer of this kind.
Grew(kind) ==
    /\ meshCall.op = "upload_mesh"
    /\ \E i \in DOMAIN meshCall.reallocs :
          /\ meshCall.reallocs[i].kind = kind
          /\ meshCall.reallocs[i].new_size >
                (IF kind = "vertices" THEN meshCall.reallocs[i].vertex_capacity
                 ELSE meshCall.reallocs[i].index_capacity * INDEX_SIZE)

\* C2's case: an upload grew the vertex buffer while a registered record held
\* ranges of it, and returned a record with ranges of its own.
C2_Witness ==
    /\ Grew("vertices")
    /\ meshCall.r = "ok"
    /\ buffers.vertices.gen > 0
    /\ \E x \in LiveVertexRanges : x.at[1][1] = "registry"
    /\ \E x \in LiveVertexRanges : x.at[1][1] = "held"

\* C9: upload_mesh of a mesh with no vertices or no indices returns the empty
\* record (vertex_count 0, no attribute ranges, index range 0..0), creates no
\* staging buffer, changes no allocator and no live buffer, records no command.
C9_EmptyMeshShortCircuits ==
    [][(uploads' = uploads + 1
        /\ (meshCall'.mesh.vertex_count = 0 \/ meshCall'.mesh.indices = 0)) =>
            /\ meshCall'.r = "ok"
            /\ meshCall'.record = [vertex_count |-> 0, vertex_attribute_ranges |-> <<>>,
                                   indices_range |-> Rng(0, 0)]
            /\ held' = Append(held, meshCall'.record)
            /\ ~meshCall'.staging
            /\ encoder' = <<>>
            /\ UNCHANGED <<vertex_alloc, index_alloc, buffers>>
      ]_vars

\* C9's case: a mesh with vertices and attribute streams but no indices was
\* uploaded to a manager that had already allocated ranges.
C9_Witness ==
    /\ meshCall.op = "upload_mesh"
    /\ meshCall.mesh.vertex_count > 0
    /\ Len(meshCall.mesh.attribute_data) > 0
    /\ meshCall.mesh.indices = 0
    /\ meshCall.r = "ok"
    /\ vertex_alloc # NewAllocator(INITIAL_VERTICES_CAPACITY)

\* The vertex sizes realloc computed in the last call for a vertex buffer at
\* capacity 65536 and an additional 70000 bytes.
C10_Scenario(e) ==
    /\ e.kind = "vertices"
    /\ e.vertex_capacity = 65536
    /\ e.additional = 70000

\* C10 as stated: in that scenario realloc computes the new capacity 131072.
C10_Original ==
    meshCall.op = "upload_mesh" =>
        \A i \in DOMAIN meshCall.reallocs :
            C10_Scenario(meshCall.reallocs[i]) => meshCall.reallocs[i].new_size = 131072

\* C10, amended: in that scenario realloc computes the new capacity 262144, the
\* smallest power of two >= 65536 + 70000, when the device limit is at least
\* 262144 and the index allocator's capacity (which line 224 reads as the
\* current vertex size) is at most 192144.
C10_ComputesNextPowerOfTwo ==
    meshCall.op = "upload_mesh" =>
        \A i \in DOMAIN meshCall.reallocs :
            (/\ C10_Scenario(meshCall.reallocs[i])
             /\ maxBufferSize >= 262144
             /\ meshCall.reallocs[i].index_capacity <= 192144)
            => meshCall.reallocs[i].new_size = 262144

\* C10's case: the scenario happened and the vertex buffer grew.
C10_Witness ==
    /\ meshCall.op = "upload_mesh"
    /\ meshCall.r = "ok"
    /\ \E i \in DOMAIN meshCall.reallocs : C10_Scenario(meshCall.reallocs[i])
    /\ maxBufferSize >= 262144
    /\ vertex_alloc.cap = 262144

\* The size the contract asks of realloc for log entry e: the smallest power of
\* two >= the grown buffer's own capacity plus the additional size, capped.
ContractSize(e) ==
    IF e.kind = "vertices"
    THEN Min(NextPow2(e.vertex_capacity + e.additional), maxBufferSize)
    ELSE Min(NextPow2(e.index_capacity * INDEX_SIZE + e.additional * INDEX_SIZE),
             maxBufferSize)

\* C11: the new capacity realloc computes for a buffer is the smallest power of
\* two >= that buffer's current capacity plus the additional size, capped at
\* the device limit; for the vertex buffer the current capacity is the vertex
\* allocator's, whatever the index allocator's capacity is.
C11_NewCapacityFromOwnAllocator ==
    meshCall.op = "upload_mesh" =>
        \A i \in DOMAIN meshCall.reallocs :
            meshCall.reallocs[i].new_size = ContractSize(meshCall.reallocs[i])

\* The step is a call of remove.
RemoveStep == meshCall'.op = "remove" /\ meshCall' # meshCall

\* C16: remove of a handle that is not registered (removed before, slot None,
\* or index beyond the registry) panics and returns no range to an allocator.
C16_RemoveOfUnregisteredPanics ==
    [][(RemoveStep /\ ~Registered(registry, meshCall'.handle)) =>
            /\ meshCall'.r = "panic"
            /\ meshStatus' = "panicked"
            /\ UNCHANGED <<vertex_alloc, index_alloc, registry>>
      ]_vars

\* C16's cases: the handle's slot was None, and the handle was beyond the
\* registry, both with ranges allocated.
C16_Witness ==
    /\ meshCall.op = "remove"
    /\ ~meshCall.registered
    /\ meshCall.r = "panic"
    /\ meshCall.handle + 1 <= Len(registry)
    /\ vertex_alloc.free # <<Rng(0, vertex_alloc.cap)>>

\* Sum of the lengths of the ranges of a sequence.
RECURSIVE TotalLength(_, _)
TotalLength(ranges, i) ==
    IF i > Len(ranges) THEN 0
    ELSE ranges[i].end - ranges[i].start + TotalLength(ranges, i + 1)
\* Range r lies inside a free range of allocator a.
IsFree(a, r) ==
    \E j \in DOMAIN a.free : a.free[j].start <= r.start /\ r.end <= a.free[j].end
\* Allocator b's free space is a's plus exactly the non-empty ranges of rs.
Returned(a, b, rs) ==
    /\ b.cap = a.cap
    /\ \A i \in DOMAIN rs : IsEmpty(rs[i]) \/ IsFree(b, rs[i])
    /\ \A j \in DOMAIN a.free : IsFree(b, a.free[j])
    /\ TotalLength(b.free, 1) = TotalLength(a.free, 1) + TotalLength(rs, 1)

\* C17: remove of a registered record succeeds, returns every non-empty vertex
\* range and the non-empty index range of the record to its allocator, frees
\* nothing else and changes no other record; an empty record changes neither
\* allocator.
C17_RemoveReturnsRanges ==
    [][(RemoveStep /\ Registered(registry, meshCall'.handle)) =>
         LET mesh == registry[meshCall'.handle + 1] IN
            /\ meshCall'.r = "ok"
            /\ Returned(vertex_alloc, vertex_alloc',
                  [i \in DOMAIN mesh.vertex_attribute_ranges |->
                       mesh.vertex_attribute_ranges[i].range])
            /\ Returned(index_alloc, index_alloc', <<mesh.indices_range>>)
            /\ registry' = [registry EXCEPT ![meshCall'.handle + 1] = None]
            /\ held' = held
            /\ mesh = NewEmpty => UNCHANGED <<vertex_alloc, index_alloc>>
      ]_vars

\* The byte capacity of the buffer log entry e is about, before the call, and
\* the bytes asked in addition.
OwnCapacity(e) ==
    IF e.kind = "vertices" THEN e.vertex_capacity ELSE e.index_capacity * INDEX_SIZE
AdditionalBytes(e) ==
    IF e.kind = "vertices" THEN e.additional ELSE e.additional * INDEX_SIZE
\* The capacity needed: current capacity plus the additional size, rounded up
\* to a power of two.
NeededCapacity(e) == NextPow2(OwnCapacity(e) + AdditionalBytes(e))

\* C23: realloc returns an error (and so does the upload that called it)
\* whenever the capacity needed exceeds the device limit, also when the limit
\* lies between the current capacity and the current capacity plus the
\* additional size, and whenever the index buffer size it computed is not a
\* multiple of the index element size.
C23_ReallocFailsBeyondLimit ==
    meshCall.op = "upload_mesh" =>
        \A i \in DOMAIN meshCall.reallocs :
            LET e == meshCall.reallocs[i] IN
            (\/ NeededCapacity(e) > maxBufferSize
             \/ e.kind = "indices" /\ e.new_size % INDEX_SIZE # 0)
            => meshCall.r = "err"

\* The sizes upload_mesh asks of the vertex allocator (bytes of an attribute
\* stream) and of the index allocator (index counts).
VertexRequestSizes ==
    {v * a.stride : v \in VertexCounts \ {0}, a \in AttributeKinds}
IndexRequestSizes == IndexCounts \ {0}
\* alloc_range_for_vertices / alloc_range_for_indices in the current state:
\* if the allocation fails and realloc returns Ok, the retry succeeds.
VertexRetrySucceeds(size) ==
    (/\ AllocateRange(vertex_alloc, size, overflowChecks).r = "err"
     /\ Realloc(Manager(0), size, 0).r = "ok")
    => AllocateRange(Realloc(Manager(0), size, 0).m.va, size, overflowChecks).r = "ok"
IndexRetrySucceeds(count) ==
    (/\ AllocateRange(index_alloc, count, overflowChecks).r = "err"
     /\ Realloc(Manager(0), 0, count).r = "ok")
    => AllocateRange(Realloc(Manager(0), 0, count).m.ia, count, overflowChecks).r = "ok"

\* C25: in every reachable state of the two allocators, when a range
\* allocation fails and realloc then returns Ok, the retried allocate_range of
\* the same size succeeds (the expect of alloc_range_for_vertices and of
\* alloc_range_for_indices does not panic).
C25_RetryAfterReallocSucceeds ==
    meshStatus = "ok" =>
        /\ \A size \in VertexRequestSizes : VertexRetrySucceeds(size)
        /\ \A count \in IndexRequestSizes : IndexRetrySucceeds(count)

\* The copies realloc recorded on the encoder: from a live buffer to its
\* replacement.
ReallocCopies ==
    {encoder[i] : i \in {j \in DOMAIN encoder : encoder[j].src.kind # "staging"}}

\* C26: a call that replaced the vertex (index) buffer left a buffer and an
\* allocator capacity strictly greater than before the call, every
\* replacement buffer is larger than the buffer it replaces, and no step
\* lowers a capacity.
C26_GrowthIncreasesCapacity ==
    [][/\ buffers'.vertices.gen # buffers.vertices.gen =>
            /\ buffers'.vertices.size > buffers.vertices.size
            /\ vertex_alloc'.cap > vertex_alloc.cap
       /\ buffers'.indices.gen # buffers.indices.gen =>
            /\ buffers'.indices.size > buffers.indices.size
            /\ index_alloc'.cap > index_alloc.cap
       /\ encoder' # encoder => \A c \in ReallocCopies' : c.dst.size > c.src.size
       /\ vertex_alloc'.cap >= vertex_alloc.cap
       /\ index_alloc'.cap >= index_alloc.cap
      ]_vars

\* C27: the copy realloc records from an old buffer to its replacement is one
\* region from offset 0 to offset 0 whose size is the old buffer's byte size.
C27_ReallocCopiesWholeOldBuffer ==
    \A c \in ReallocCopies : c.regions = <<BufferCopy(0, 0, c.src.size)>>

\* Capacities the other allocator is tried at.
OtherCapacities == {INITIAL_INDEX_COUNT, 2 * INITIAL_INDEX_COUNT}
\* realloc growing one buffer only, in the current state with the other
\* allocator at capacity c.
VertexOnlyRealloc(c, size) ==
    Realloc([Manager(0) EXCEPT !.ia = NewAllocator(c)], size, 0)
IndexOnlyRealloc(c, count) ==
    Realloc([Manager(0) EXCEPT !.va = NewAllocator(c)], 0, count)

\* C28: a realloc that grows only the vertex buffer leaves the index buffer
\* and the index allocator as they are, and its result, the vertex buffer,
\* the vertex allocator and the copy it records are the same for every
\* capacity of the index allocator; the same with the two exchanged.
C28_GrowthsIndependent ==
    meshStatus = "ok" =>
        /\ \A size \in VertexRequestSizes, c \in OtherCapacities :
              LET a == VertexOnlyRealloc(index_alloc.cap, size)
                  b == VertexOnlyRealloc(c, size)
              IN  /\ a.m.ia = NewAllocator(index_alloc.cap) /\ a.m.ib = buffers.indices
                  /\ a.r = b.r /\ a.m.va = b.m.va /\ a.m.vb = b.m.vb
                  /\ a.m.enc = b.m.enc
        /\ \A count \in IndexRequestSizes, c \in OtherCapacities :
              LET a == IndexOnlyRealloc(vertex_alloc.cap, count)
                  b == IndexOnlyRealloc(c, count)
              IN  /\ a.m.va = NewAllocator(vertex_alloc.cap) /\ a.m.vb = buffers.vertices
                  /\ a.r = b.r /\ a.m.ia = b.m.ia /\ a.m.ib = b.m.ib
                  /\ a.m.enc = b.m.enc

\* The last call was a successful upload of a mesh with vertices and indices.
Uploaded ==
    /\ meshCall.op = "upload_mesh"
    /\ meshCall.r = "ok"
    /\ meshCall.mesh.vertex_count # 0 /\ meshCall.mesh.indices # 0

\* C29: the copy upload_mesh records for the index stream starts in the
\* staging buffer after all attribute streams, has the byte length of the
\* index stream, ends at the end of the staging buffer, and goes to the byte
\* offset of the allocated index range.
C29_IndexCopyDescriptor ==
    Uploaded =>
        LET cmd == encoder[Len(encoder)]
            copy == cmd.regions[1]
        IN  /\ cmd.src.kind = "staging" /\ cmd.dst.kind = "indices"
            /\ Len(cmd.regions) = 1
            /\ copy.src_offset = SumByteLen(meshCall.mesh, 1)
            /\ copy.size = meshCall.mesh.indices * INDEX_SIZE
            /\ copy.src_offset + copy.size = cmd.src.size
            /\ copy.dst_offset = meshCall.record.indices_range.start * INDEX_SIZE

\* C24: on the encoder of an upload, every copy realloc recorded from an old
\* buffer to its replacement comes before every copy from the staging buffer,
\* and the staging copies go to the buffers that are live after the call.
C24_ReallocCopiesPrecedeStagingCopies ==
    /\ \A i, j \in DOMAIN encoder :
          (encoder[i].src.kind # "staging" /\ encoder[j].src.kind = "staging") => i < j
    /\ \A j \in DOMAIN encoder :
          encoder[j].src.kind = "staging" =>
              /\ encoder[j].dst.kind = "vertices" => encoder[j].dst.gen = buffers.vertices.gen
              /\ encoder[j].dst.kind = "indices" => encoder[j].dst.gen = buffers.indices.gen

\* C24's case: one upload grew the vertex buffer and the index buffer and
\* then wrote into both.
C24_Witness ==
    /\ Uploaded
    /\ \E c \in ReallocCopies : c.dst.kind = "vertices"
    /\ \E c \in ReallocCopies : c.dst.kind = "indices"
    /\ \E j \in DOMAIN encoder :
          /\ encoder[j].src.kind = "staging"
          /\ encoder[j].dst.kind = "vertices"
          /\ Len(encoder[j].regions) >= 1

\* C30: the vertex allocator's capacity is the live vertex buffer's byte size,
\* and the index allocator's capacity times the index element size is the
\* live index buffer's byte size.
C30_CapacityMatchesBufferSize ==
    /\ vertex_alloc.cap = buffers.vertices.size
    /\ index_alloc.cap * INDEX_SIZE = buffers.indices.size

\* C30's case: both buffers have been replaced.
C30_Witness ==
    /\ buffers.vertices.gen > 0
    /\ buffers.indices.gen > 0
    /\ vertex_alloc.cap > INITIAL_VERTICES_CAPACITY
    /\ index_alloc.cap > INITIAL_INDEX_COUNT

\* How much of allocator a is allocated.
AllocatedLength(a) == a.cap - TotalLength(a.free, 1)
\* Allocator b has the same ranges allocated as allocator a had.
SameAllocated(a, b) ==
    /\ StaysAllocated(a, b)
    /\ AllocatedLength(b) = AllocatedLength(a)

\* C31: an upload_mesh call that returns an error leaves the same ranges
\* allocated in the vertex allocator and in the index allocator as before the
\* call.
C31_FailedUploadReleasesRanges ==
    [][(uploads' = uploads + 1 /\ meshCall'.r = "err") =>
            /\ SameAllocated(vertex_alloc, vertex_alloc')
            /\ SameAllocated(index_alloc, index_alloc')
      ]_vars

\* The step is a call of insert.
InsertStep == meshCall'.op = "insert" /\ meshCall' # meshCall

\* C32: insert stores the record in the slot of the handle's index, extends
\* the registry with None slots up to that index when it is too short, leaves
\* every other slot as it was and changes neither allocator, also when the
\* slot held a record: the ranges of a replaced record stay allocated.
C32_InsertStoresRecord ==
    [][InsertStep =>
         LET slot == meshCall'.handle + 1 IN
            /\ \E k \in DOMAIN held :
                  registry'[slot] = held[k] /\ held' = RemoveAt(held, k)
            /\ Len(registry') = Max(Len(registry), slot)
            /\ \A i \in DOMAIN registry' :
                  i # slot => registry'[i] = (IF i <= Len(registry) THEN registry[i]
                                              ELSE None)
            /\ UNCHANGED <<vertex_alloc, index_alloc, buffers>>
      ]_vars

\* C32's case: the insert replaced a record; the index ranges of both
\* records are still allocated.
C32_Witness ==
    /\ meshCall.op = "insert"
    /\ meshCall.replaced
    /\ registry[meshCall.handle + 1].indices_range = Rng(40000, 80000)
    /\ AllocatedLength(index_alloc) = 80000

(***************************************************************************)
(* Properties of PhysicalDevice::create_device.                            *)
(***************************************************************************)
\* The snapshot says the feature is supported: the extension it needs is
\* listed, or its bit in the tier-2 feature block is set.
Supported(snap, feature) ==
    CASE feature = "SurfacePresentation" -> KHR_SWAPCHAIN \in snap.extensions
      [] feature = "DisplayTiming" -> GOOGLE_DISPLAY_TIMING \in snap.extensions
      [] feature = "ScalarBlockLayout" -> snap.scalar_block_layout
      [] feature = "BufferDeviceAddress" -> snap.buffer_device_address
\* The requested features the adapter does not support.
Unsupported == {f \in pdCall.features : ~Supported(CollectInfo(hw), f)}
\* The order in which create_device looks at the features.
ResolutionOrder == <<"SurfacePresentation", "ScalarBlockLayout", "BufferDeviceAddress",
                     "DisplayTiming">>
FirstUnsupported ==
    ResolutionOrder[CHOOSE i \in DOMAIN ResolutionOrder :
                       /\ ResolutionOrder[i] \in Unsupported
                       /\ \A j \in 1..(i - 1) : ResolutionOrder[j] \notin Unsupported]

\* The cumulative count the pairs of a request ask of one family.
RECURSIVE Requested(_, _, _)
Requested(queues, family, i) ==
    IF i > Len(queues) THEN 0
    ELSE (IF queues[i][1] = family THEN queues[i][2] ELSE 0)
         + Requested(queues, family, i + 1)
RequestedFamilies(queues) == {queues[i][1] : i \in DOMAIN queues}
\* The request names a family that does not exist or asks too much of one.
QueuesUnsatisfiable(queues) ==
    \E f \in RequestedFamilies(queues) :
        \/ f + 1 > Len(QueueFamilies)
        \/ Requested(queues, f, 1) > QueueFamilies[f + 1]
QueueErrors == {"queue family not found", "too many queues"}

\* C12 as stated: every requested feature that is not supported makes
\* create_device return an error naming that feature, without the native
\* device creation being called.
C12_Original ==
    pdCall.op = "create_device" =>
        \A f \in Unsupported :
            /\ pdCall.res.r = "err"
            /\ ~pdCall.res.native_called
            /\ pdCall.res.error = PdError("feature", f, -1)

\* C12, amended: a request with an unsupported feature makes create_device
\* return an error without calling the native device creation; when the queue
\* request was accepted the error names the first unsupported feature in the
\* order SurfacePresentation, ScalarBlockLayout, BufferDeviceAddress,
\* DisplayTiming, otherwise it is the queue error.
C12_UnsupportedFeatureFails ==
    (pdCall.op = "create_device" /\ Unsupported # {}) =>
        /\ pdCall.res.r = "err"
        /\ ~pdCall.res.native_called
        /\ IF pdCall.query_ok /\ ~QueuesUnsatisfiable(pdCall.queues)
           THEN pdCall.res.error = PdError("feature", FirstUnsupported, -1)
           ELSE pdCall.res.error.class \in QueueErrors \cup {"queues query"}

\* C12's case: two requested features are unsupported, the queues are fine.
C12_Witness ==
    /\ pdCall.op = "create_device"
    /\ Cardinality(Unsupported) >= 2
    /\ pdCall.query_ok /\ ~QueuesUnsatisfiable(pdCall.queues) /\ pdCall.queues # <<>>
    /\ pdCall.res.error.class = "feature"

\* The request that was assembled holds this feature block.
Attached(block) == Contains(pdCall.res.blocks, block)

\* C13: on an adapter with native tier 2, a request with ScalarBlockLayout or
\* BufferDeviceAddress reaches the native device creation with exactly the
\* tier-2 block attached; on no adapter are the tier-2 block and an
\* extension's block both attached.
C13_OneBlockOnTier2 ==
    pdCall.op = "create_device" =>
        /\ (/\ hw.vk1_2
            /\ pdCall.features \cap {"ScalarBlockLayout", "BufferDeviceAddress"} # {}
            /\ pdCall.res.native_called)
           => pdCall.res.blocks = <<"features_v1_2">>
        /\ hw.vk1_2 => ~Attached("features_sbl") /\ ~Attached("features_bda")
        /\ ~(Attached("features_v1_2")
             /\ (Attached("features_sbl") \/ Attached("features_bda")))

\* C13's case: both features requested on a tier-2 adapter, device created.
C13_Witness ==
    /\ pdCall.op = "create_device"
    /\ hw.vk1_2
    /\ {"ScalarBlockLayout", "BufferDeviceAddress"} \subseteq pdCall.features
    /\ pdCall.res.r = "ok"
    /\ pdCall.res.blocks = <<"features_v1_2">>

\* C14: without native tier 2 the tier-2 block is never attached; an
\* extension's block is attached only if its feature was requested and its
\* extension is supported; a requested feature whose extension is not
\* supported makes create_device fail without creating a device.
C14_ExtensionBlocksValidated ==
    (pdCall.op = "create_device" /\ ~hw.vk1_2) =>
        /\ ~Attached("features_v1_2")
        /\ Attached("features_sbl") =>
              /\ "ScalarBlockLayout" \in pdCall.features
              /\ EXT_SCALAR_BLOCK_LAYOUT \in hw.extensions
        /\ Attached("features_bda") =>
              /\ "BufferDeviceAddress" \in pdCall.features
              /\ KHR_BUFFER_DEVICE_ADDRESS \in hw.extensions
        /\ (\/ /\ "ScalarBlockLayout" \in pdCall.features
               /\ EXT_SCALAR_BLOCK_LAYOUT \notin hw.extensions
            \/ /\ "BufferDeviceAddress" \in pdCall.features
               /\ KHR_BUFFER_DEVICE_ADDRESS \notin hw.extensions)
           => pdCall.res.r = "err" /\ ~pdCall.res.native_called

\* C14's case: both extension blocks attached on an adapter without tier 2.
C14_Witness ==
    /\ pdCall.op = "create_device"
    /\ ~hw.vk1_2
    /\ pdCall.res.r = "ok"
    /\ pdCall.res.blocks = <<"features_sbl", "features_bda">>

\* C15: create_device fails if a pair names a family that does not exist or
\* if the counts asked of one family add up to more than its queue_count;
\* otherwise the request holds one queue entry per requested family, with the
\* cumulative count of priorities, all 1.0.
C15_QueueAssembly ==
    (pdCall.op = "create_device" /\ pdCall.query_ok) =>
        IF QueuesUnsatisfiable(pdCall.queues)
        THEN /\ pdCall.res.r = "err"
             /\ pdCall.res.error.class \in QueueErrors
             /\ ~pdCall.res.native_called
        ELSE pdCall.res.queue_create_infos =
                {[queue_family_index |-> f,
                  queue_priorities |->
                     [k \in 1..Requested(pdCall.queues, f, 1) |-> "1.0"]] :
                 f \in RequestedFamilies(pdCall.queues)}

\* C15's case: two pairs name the same family and the device is created.
C15_Witness ==
    /\ pdCall.op = "create_device"
    /\ Len(pdCall.queues) = 2
    /\ pdCall.queues[1][1] = pdCall.queues[2][1]
    /\ pdCall.res.r = "ok"
    /\ \E e \in pdCall.res.queue_create_infos : Len(e.queue_priorities) = 2

\* How often ext is in the list of extensions create_device collected.
Listed(ext) ==
    Cardinality({i \in DOMAIN pdCall.res.extensions : pdCall.res.extensions[i] = ext})

\* C38: after a successful create_device, the extension of every feature that
\* was resolved through an extension (SurfacePresentation, DisplayTiming, and
\* without tier 2 ScalarBlockLayout and BufferDeviceAddress) is in the
\* collected list of extensions, once.
C38_ExtensionListedOnce ==
    (pdCall.op = "create_device" /\ pdCall.res.r = "ok") =>
        /\ "SurfacePresentation" \in pdCall.features => Listed(KHR_SWAPCHAIN) = 1
        /\ "DisplayTiming" \in pdCall.features => Listed(GOOGLE_DISPLAY_TIMING) = 1
        /\ ("ScalarBlockLayout" \in pdCall.features /\ ~hw.vk1_2)
              => Listed(EXT_SCALAR_BLOCK_LAYOUT) = 1
        /\ ("BufferDeviceAddress" \in pdCall.features /\ ~hw.vk1_2)
              => Listed(KHR_BUFFER_DEVICE_ADDRESS) = 1

(***************************************************************************)
(* Properties of the fence machine.  fenceCall keeps, of the last call:    *)
(* the batch, the states before (pre), the native status before (native),  *)
(* the answers of the polls it made, which native calls it made.           *)
(***************************************************************************)
\* C3: reset_fences on a batch holding an Armed fence the device has not
\* completed returns an error, never calls the native reset and moves no
\* fence of the batch to Unsignalled.
C3_ResetOfPendingFenceFails ==
    (/\ fenceCall.op = "reset_fences"
     /\ \E f \in InBatch(fenceCall.batch) :
           fenceCall.pre[f] = "Armed" /\ ~fenceCall.native[f])
    => /\ fenceCall.r = "err"
       /\ ~fenceCall.native_reset
       /\ \A f \in InBatch(fenceCall.batch) :
             fenceState[f] = "Unsignalled" => fenceCall.pre[f] = "Unsignalled"

\* C3's case: the pending fence came after a fence the call caught up.
C3_Witness ==
    /\ fenceCall.op = "reset_fences"
    /\ \E f \in InBatch(fenceCall.batch) :
          fenceCall.pre[f] = "Armed" /\ ~fenceCall.native[f]
    /\ \E g \in InBatch(fenceCall.batch) :
          fenceCall.pre[g] = "Armed" /\ fenceState[g] = "Signalled"

\* C4: reset_fences on a batch whose fences are Signalled, or Armed and
\* reported complete by the device, makes no native wait, turns each Armed
\* fence Signalled first, calls the native reset, fails only if that call
\* fails, and after its success returns Ok with every fence Unsignalled.
C4_ResetOfCompletedFences ==
    (/\ fenceCall.op = "reset_fences"
     /\ \A f \in InBatch(fenceCall.batch) :
           \/ fenceCall.pre[f] = "Signalled"
           \/ fenceCall.pre[f] = "Armed" /\ fenceCall.polls[f] = "SUCCESS")
    => /\ ~fenceCall.native_wait
       /\ \A f \in InBatch(fenceCall.batch) : fenceCall.mid[f] = "Signalled"
       /\ fenceCall.native_reset
       /\ fenceCall.r = "err" => ~fenceCall.native_reset_ok
       /\ fenceCall.native_reset_ok =>
             /\ fenceCall.r = "ok"
             /\ \A f \in InBatch(fenceCall.batch) : fenceState[f] = "Unsignalled"

\* C4's case: a batch of an Armed, completed fence and a Signalled one was reset.
C4_Witness ==
    /\ fenceCall.op = "reset_fences"
    /\ fenceCall.r = "ok"
    /\ \E f, g \in InBatch(fenceCall.batch) :
          /\ fenceCall.pre[f] = "Armed" /\ fenceCall.polls[f] = "SUCCESS"
          /\ fenceCall.pre[g] = "Signalled"
          /\ fenceState[f] = "Unsignalled" /\ fenceState[g] = "Unsignalled"

\* C5: wait_fences on a batch holding an Unsignalled fence returns an error,
\* makes no native call (no wait, no poll) and leaves every fence as it was.
C5_WaitOnUnsignalledFails ==
    (/\ fenceCall.op = "wait_fences"
     /\ \E f \in InBatch(fenceCall.batch) : fenceCall.pre[f] = "Unsignalled")
    => /\ fenceCall.r = "err"
       /\ ~fenceCall.native_wait
       /\ fenceCall.polls = NoPolls
       /\ fenceState = fenceCall.pre

\* C5's case: the Unsignalled fence came after an Armed one.
C5_Witness ==
    /\ fenceCall.op = "wait_fences"
    /\ Len(fenceCall.batch) >= 2
    /\ fenceCall.pre[fenceCall.batch[1]] = "Armed"
    /\ fenceCall.pre[fenceCall.batch[2]] = "Unsignalled"
    /\ fenceCall.r = "err"

\* C6: with wait_all, or with exactly one fence waited on, wait_fences returns
\* Ok after a successful native wait and every fence of the batch is Signalled.
C6_WaitAllSignalsEveryFence ==
    (/\ fenceCall.op = "wait_fences"
     /\ fenceCall.native_wait_ok
     /\ (fenceCall.wait_all \/ Len(fenceCall.handles) = 1))
    => /\ fenceCall.r = "ok"
       /\ \A f \in InBatch(fenceCall.batch) : fenceState[f] = "Signalled"

\* C6's case: the batch mixed an Armed fence with an already Signalled one.
C6_Witness ==
    /\ fenceCall.op = "wait_fences"
    /\ fenceCall.native_wait_ok
    /\ (fenceCall.wait_all \/ Len(fenceCall.handles) = 1)
    /\ \E f, g \in InBatch(fenceCall.batch) :
          fenceCall.pre[f] = "Armed" /\ fenceCall.pre[g] = "Signalled"

\* The last call was a wait for any of two or more fences whose native wait
\* succeeded.
WaitedForAny ==
    /\ fenceCall.op = "wait_fences"
    /\ fenceCall.native_wait_ok
    /\ ~fenceCall.wait_all
    /\ Len(fenceCall.handles) >= 2

\* C7: after a successful native wait for any of two or more fences, with every
\* fence's poll reporting a status, wait_fences returns Ok, a fence is Signalled
\* exactly when its own poll reported completion, and a fence whose poll
\* reported not-ready stays Armed.
C7_WaitAnyRepollsEachFence ==
    (/\ WaitedForAny
     /\ \A f \in InBatch(fenceCall.batch) : fenceCall.polls[f] # "ERROR")
    => /\ fenceCall.r = "ok"
       /\ \A f \in InBatch(fenceCall.batch) :
             /\ fenceCall.polls[f] \in {"SUCCESS", "NOT_READY"}
             /\ fenceState[f] = "Signalled" <=> fenceCall.polls[f] = "SUCCESS"
             /\ fenceCall.polls[f] = "NOT_READY" => fenceState[f] = "Armed"

\* C7's case: one fence had completed, another had not.
C7_Witness ==
    /\ WaitedForAny
    /\ \E f, g \in InBatch(fenceCall.batch) :
          /\ fenceCall.polls[f] = "SUCCESS" /\ fenceState[f] = "Signalled"
          /\ fenceCall.polls[g] = "NOT_READY" /\ fenceState[g] = "Armed"

\* C8: a fence's state only changes along Unsignalled -> Armed -> Signalled ->
\* Unsignalled; an Armed fence becomes Unsignalled within one call only in
\* reset_fences, after its poll reported completion and it was Signalled.
C8_FenceCycle ==
    [][\A f \in Fences :
          fenceState'[f] # fenceState[f] =>
             \/ fenceState[f] = "Unsignalled" /\ fenceState'[f] = "Armed"
             \/ fenceState[f] = "Armed" /\ fenceState'[f] = "Signalled"
             \/ fenceState[f] = "Signalled" /\ fenceState'[f] = "Unsignalled"
             \/ /\ fenceState[f] = "Armed" /\ fenceState'[f] = "Unsignalled"
                /\ fenceCall'.op = "reset_fences"
                /\ fenceCall'.polls[f] = "SUCCESS"
                /\ fenceCall'.mid[f] = "Signalled"
      ]_vars

\* C8's case: one reset_fences call took an Armed fence to Unsignalled.
C8_Witness ==
    /\ fenceCall.op = "reset_fences"
    /\ \E f \in InBatch(fenceCall.batch) :
          fenceCall.pre[f] = "Armed" /\ fenceState[f] = "Unsignalled"

\* The last call was a reset_fences that returned an error.
ResetFailed == fenceCall.op = "reset_fences" /\ fenceCall.r = "err"

\* Positions of the batch whose fence made the closure of reset_fences fail:
\* an Armed fence whose poll failed or reported not-ready.
FailingAt ==
    {j \in DOMAIN fenceCall.batch :
        /\ fenceCall.pre[fenceCall.batch[j]] = "Armed"
        /\ fenceCall.polls[fenceCall.batch[j]] \in {"NOT_READY", "ERROR"}}

\* Fence f was caught up by the last call: Armed before, its poll reported
\* completion, Signalled now.
CaughtUp(f) ==
    /\ f \in InBatch(fenceCall.batch)
    /\ fenceCall.pre[f] = "Armed"
    /\ fenceCall.polls[f] = "SUCCESS"
    /\ fenceState[f] = "Signalled"

\* Fence f comes before a failing fence in the batch.
PrecedesFailing(f) ==
    \E i, j \in DOMAIN fenceCall.batch :
       fenceCall.batch[i] = f /\ i < j /\ j \in FailingAt

\* C33 as stated: a reset_fences that returned an error never invoked the
\* native reset, moved no fence to Unsignalled, and changed only fences that
\* precede the failing fence, from Armed to Signalled after their poll
\* reported completion.
C33_Original ==
    ResetFailed =>
       /\ ~fenceCall.native_reset
       /\ \A f \in Fences :
             fenceState[f] = "Unsignalled" => fenceCall.pre[f] = "Unsignalled"
       /\ \A f \in Fences :
             fenceState[f] # fenceCall.pre[f] => CaughtUp(f) /\ PrecedesFailing(f)

\* C33: a reset_fences that returned an error either failed at a fence of the
\* batch, and then never invoked the native reset, or invoked the native reset
\* and that call failed; in both cases it moved no fence to Unsignalled, and
\* the only fences it changed went from Armed to Signalled after their poll
\* reported completion: the ones before the failing fence, or every Armed
\* fence of the batch when it was the native reset that failed.
C33_FailedResetEffects ==
    ResetFailed =>
       /\ fenceCall.native_reset <=> FailingAt = {}
       /\ fenceCall.native_reset => ~fenceCall.native_reset_ok
       /\ \A f \in Fences :
             fenceState[f] = "Unsignalled" => fenceCall.pre[f] = "Unsignalled"
       /\ \A f \in Fences :
             fenceState[f] # fenceCall.pre[f] =>
                /\ CaughtUp(f)
                /\ ~fenceCall.native_reset => PrecedesFailing(f)
       /\ fenceCall.native_reset =>
             \A f \in InBatch(fenceCall.batch) :
                fenceCall.pre[f] = "Armed" => CaughtUp(f)

\* C33's case: the native reset failed after the call had caught up an Armed
\* fence of a batch that also held a Signalled one.
C33_Witness ==
    /\ ResetFailed
    /\ fenceCall.native_reset
    /\ \E f, g \in InBatch(fenceCall.batch) :
          /\ CaughtUp(f)
          /\ fenceCall.pre[g] = "Signalled" /\ fenceState[g] = "Signalled"

\* C34: wait_fences on an empty batch, or on a batch whose fences are all
\* Signalled already, returns Ok, makes neither the native wait nor a status
\* poll, and leaves every fence's state as it was.
C34_WaitOnSignalledIsNoOp ==
    (/\ fenceCall.op = "wait_fences"
     /\ \A f \in InBatch(fenceCall.batch) : fenceCall.pre[f] = "Signalled")
    => /\ fenceCall.r = "ok"
       /\ ~fenceCall.native_wait
       /\ fenceCall.polls = NoPolls
       /\ fenceCall.handles = <<>>
       /\ fenceState = fenceCall.pre

\* C34's case: a wait for any of two fences, both Signalled already.
C34_Witness ==
    /\ fenceCall.op = "wait_fences"
    /\ Len(fenceCall.batch) = 2
    /\ ~fenceCall.wait_all
    /\ \A f \in InBatch(fenceCall.batch) : fenceCall.pre[f] = "Signalled"
    /\ fenceCall.r = "ok"

\* C35: update_armed_fence_state makes one status poll of its fence and no
\* blocking native call; it returns true exactly when the poll reported
\* completion, and then the fence is Signalled; when the poll reported
\* not-ready it returns false and the fence's state is as before.
C35_UpdateArmedFenceStatePolls ==
    fenceCall.op = "update_armed_fence_state" =>
       LET f == fenceCall.fence IN
       /\ ~fenceCall.native_wait /\ ~fenceCall.native_reset
       /\ fenceCall.polls[f] # "none"
       /\ \A g \in Fences \ {f} :
             fenceCall.polls[g] = "none" /\ fenceState[g] = fenceCall.pre[g]
       /\ (fenceCall.r = "ok" /\ fenceCall.val) <=> fenceCall.polls[f] = "SUCCESS"
       /\ fenceCall.polls[f] = "SUCCESS" => fenceState[f] = "Signalled"
       /\ fenceCall.polls[f] = "NOT_READY" =>
             /\ fenceCall.r = "ok" /\ ~fenceCall.val
             /\ fenceState[f] = fenceCall.pre[f]

\* C35's case: the poll of an Armed fence reported completion.
C35_Witness ==
    /\ fenceCall.op = "update_armed_fence_state"
    /\ fenceCall.pre[fenceCall.fence] = "Armed"
    /\ fenceCall.polls[fenceCall.fence] = "SUCCESS"
    /\ fenceCall.val
    /\ fenceState[fenceCall.fence] = "Signalled"


(***************************************************************************)
(* Properties of buffer creation, destruction and the allocator's lock.    *)
(***************************************************************************)
DestroyOps == {"destroy_buffer", "destroy_image"}

\* C18: a create_buffer call that failed after the native buffer was created
\* (in the sub-allocator's allocation or in the bind) has destroyed the
\* native buffer, once, when it returns the error; a buffer that was returned
\* and is still owned is alive and was never destroyed; no handle is
\* destroyed twice.
C18_FailedCreationDestroysNative ==
    /\ \A t \in Threads :
          (/\ memCall[t].op = "create_buffer"
           /\ memCall[t].r = "err"
           /\ memCall[t].stage \in {"alloc", "bind"})
          => /\ memCall[t].id \notin nativeAlive
             /\ destroyed[memCall[t].id] = 1
    /\ \A id \in owned : id \in nativeAlive /\ destroyed[id] = 0
    /\ \A id \in ObjectIds : destroyed[id] <= 1

\* C18's case: one creation failed in the bind, another one succeeded.
C18_Witness ==
    \E t \in Threads, id \in BufferIds :
        /\ memCall[t] = CallResult("create_buffer", "err", memCall[t].id, "bind")
        /\ destroyed[memCall[t].id] = 1
        /\ id \in owned

\* C19: destroy_buffer and destroy_image destroy the native handle only after
\* the block went back to the sub-allocator, which happens with the lock
\* held; until then the native handle is alive.
C19_DeallocBeforeNativeDestroy ==
    \A t \in Threads :
        local[t].op \in DestroyOps =>
            /\ pc[t] = "destroy_native" => local[t].id \notin outstanding
            /\ pc[t] = "dealloc" => lock = t
            /\ pc[t] \in {"destroy_lock", "dealloc"} =>
                  /\ local[t].id \in nativeAlive
                  /\ local[t].id \in outstanding
            /\ (pc[t] = "idle" /\ memCall[t].op = local[t].op) =>
                  /\ local[t].id \notin outstanding
                  /\ local[t].id \notin nativeAlive
                  /\ destroyed[local[t].id] = 1

\* C19's case: a thread destroyed a buffer while another is about to destroy
\* the native handle of an image.
C19_Witness ==
    \E t \in Threads, u \in Threads :
        /\ memCall[t] = CallResult("destroy_buffer", "ok", memCall[t].id, "")
        /\ pc[u] = "destroy_native"
        /\ local[u].op = "destroy_image"

\* The steps of a call in progress on thread t.
Running(t) ==
    \/ \E fails \in BOOLEAN : NativeCreate(t, fails)
    \/ Lock(t)
    \/ \E fails \in BOOLEAN : Alloc(t, fails)
    \/ \E fails \in BOOLEAN : Bind(t, fails)
    \/ Unwind(t)
    \/ Dealloc(t)
    \/ NativeDestroy(t)
    \/ \E fails \in BOOLEAN : EndWait(t, fails)

\* C20: at most one thread is inside a sub-allocator call; a thread holds the
\* lock exactly while it is inside that call (so not while it binds memory,
\* destroys a native handle or waits for the device or for fences); while a
\* call is in progress some call can take a step.
C20_LockHeldOnlyAroundAllocatorCall ==
    /\ Cardinality({t \in Threads : pc[t] \in InAllocator}) <= 1
    /\ lock \in Threads \cup {0}
    /\ \A t \in Threads : lock = t <=> pc[t] \in InAllocator
    /\ (\E t \in Threads : pc[t] # "idle") => \E t \in Threads : ENABLED Running(t)

\* C20's case: a thread is inside the sub-allocator while another one waits
\* for the lock.
C20_Witness ==
    \E t \in Threads, u \in Threads :
        /\ pc[t] \in InAllocator
        /\ lock = t
        /\ pc[u] \in AtLock

\* C36: a create_buffer that returned an error after the sub-allocator had
\* been asked for a block leaves no block of that call outstanding: the
\* request failed, or the granted block was returned before the error.
C36_FailedCreateReturnsBlock ==
    \A t \in Threads :
       (/\ memCall[t].op = "create_buffer"
        /\ memCall[t].r = "err"
        /\ memCall[t].stage \in {"alloc", "bind"})
       => memCall[t].id \notin outstanding

\* Thread t enters create_buffer_impl with a usage that includes
\* SHADER_DEVICE_ADDRESS.
BeginsAddressableCreate(t) ==
    /\ pc[t] = "idle"
    /\ local'[t] # local[t]
    /\ local'[t].op = "create_buffer"
    /\ "SHADER_DEVICE_ADDRESS" \in local'[t].usage

\* Thread t is creating a buffer whose usage includes SHADER_DEVICE_ADDRESS.
CreatesAddressable(t) ==
    local[t].op = "create_buffer" /\ "SHADER_DEVICE_ADDRESS" \in local[t].usage

\* C37: a buffer creation whose usage includes SHADER_DEVICE_ADDRESS, on a
\* Device whose buffer_device_address bit is 0, returns the capability error
\* at once: no native buffer is created and the sub-allocator is not asked
\* (nor its lock taken).  With the bit set the creation goes on, its request to
\* the sub-allocator carries DEVICE_ADDRESS, and the buffer it returns
\* records a non-zero device address.
C37_DeviceAddressNeedsFeature ==
    [][\A t \in Threads :
          /\ BeginsAddressableCreate(t) =>
                IF deviceFeatures.buffer_device_address = 0
                THEN /\ memCall'[t] = CallResult("create_buffer", "err", 0, "capability")
                     /\ pc'[t] = "idle"
                     /\ local'[t].request = None
                     /\ UNCHANGED <<nativeAlive, destroyed, outstanding, lock, owned,
                                    nextId>>
                ELSE /\ pc'[t] = "create_native"
                     /\ memCall'[t] = memCall[t]
          /\ (CreatesAddressable(t) /\ pc[t] = "alloc" /\ pc'[t] # "alloc") =>
                /\ local'[t].request # None
                /\ "DEVICE_ADDRESS" \in local'[t].request.some.usage
          /\ (/\ CreatesAddressable(t) /\ pc[t] = "bind"
              /\ memCall'[t] = CallResult("create_buffer", "ok", local[t].id, ""))
             => /\ local'[t].address # None
                /\ local'[t].address.some # 0
                /\ "DEVICE_ADDRESS" \in local'[t].request.some.usage
      ]_vars

\* C37's case: on a Device without the feature, a creation with the address
\* usage was refused while another thread's creation holds a native buffer
\* and waits for the sub-allocator.
C37_Witness ==
    /\ deviceFeatures.buffer_device_address = 0
    /\ \E t, u \in Threads :
          /\ memCall[t] = CallResult("create_buffer", "err", 0, "capability")
          /\ local[t].op = "create_buffer" /\ local[t].has_device_address
          /\ pc[t] = "idle"
          /\ pc[u] = "create_lock"
          /\ local[u].id \in nativeAlive


(***************************************************************************)
(* Properties of the references to a Device and of its teardown.           *)
(***************************************************************************)
WeakCount == weak["fence"] + weak["semaphore"] + weak["buffer"]

\* C21: the teardown has run, once, exactly when no owning reference is
\* left; it is the idle wait followed by the sub-allocator's cleanup, the
\* cleanup runs whether the wait failed or not, and the drop that caused it
\* returns nothing to its caller.
C21_TeardownOnLastDrop ==
    /\ strong = 0 <=> teardown # <<>>
    /\ teardown # <<>> =>
          /\ Len(teardown) = 2
          /\ teardown[1].step = "wait_idle"
          /\ teardown[2] = [step |-> "cleanup", r |-> "ok"]
    /\ refCall.op = "drop" => refCall.r = "unit"

\* C21's case: the last Device was dropped while resources still held a
\* WeakDevice, and the idle wait failed.
C21_Witness ==
    /\ strong = 0
    /\ WeakCount > 0
    /\ refCall.op = "drop"
    /\ teardown = <<[step |-> "wait_idle", r |-> "err"], [step |-> "cleanup", r |-> "ok"]>>

\* C22: the teardown has happened as soon as no owning reference is left,
\* however many WeakDevice values exist; upgrade returns a Device exactly when
\* an owning reference existed, and none once the teardown has happened.
C22_WeakDoesNotKeepAlive ==
    /\ (strong = 0 /\ WeakCount > 0) => teardown # <<>>
    /\ refCall.op = "upgrade" =>
          /\ refCall.r = "some" <=> refCall.strong_before > 0
          /\ refCall.r = "some" => (strong = refCall.strong_before + 1 /\ teardown = <<>>)
          /\ teardown # <<>> => refCall.r = "none"

\* C22's case: upgrade after the teardown, with WeakDevice values of two
\* kinds of resource still held.
C22_Witness ==
    /\ refCall.op = "upgrade"
    /\ refCall.r = "none"
    /\ teardown # <<>>
    /\ weak["fence"] > 0 /\ weak["buffer"] > 0

(***************************************************************************)
(* Properties of the LoopBarrier and of the shutdown of the rendering      *)
(* thread.                                                                 *)
(***************************************************************************)
\* The rendering thread is inside LoopBarrier::wait.
InWait == {"wait_lock", "wait_check", "wait_blocked", "wait_relock", "wait_return"}

\* C39: wait() returns only when the flag is set, by a notify() that set it
\* after wait() last returned, and it leaves the flag false; so waits that
\* returned never outnumber the notifies, however many notifies came before
\* one wait; and once the flag is set while the rendering thread is in wait(),
\* whether notify() came before it started to wait or while it was blocked,
\* that wait() returns.
C39_NoLostNoInventedWakeup ==
    /\ [](/\ waits <= notifies
          /\ state <=> notifies > lastReturn)
    /\ [][waits' # waits =>
             /\ state /\ ~state'
             /\ notifies > lastReturn
             /\ waits' = waits + 1]_vars
    /\ (state /\ renderPc \in InWait) ~> (renderPc = "draw")

\* C39's case: notify() set the flag twice before wait() returned, and wait()
\* has returned once; the second notify() has not yet called notify_one.
C39_Witness ==
    /\ notifies = 2
    /\ waits = 1
    /\ lastReturn = 2
    /\ renderPc = "draw"
    /\ ~state
    /\ eventPc = "notify_one"

\* C40: once the close request has stored is_running = false and called
\* notify(), the rendering thread leaves its loop and the join returns; after
\* the store it completes at most one more wait() and one more draw.
C40_ShutdownTerminates ==
    /\ [](stopAt # None =>
             /\ waits <= stopAt.waits + 1
             /\ draws <= stopAt.draws + 1)
    /\ (eventPc = "exit") ~> (renderPc \in RenderDone /\ eventPc = "joined")

\* C40's case: the rendering thread drew once more after the store and
\* stopped, the join returned.
C40_Witness ==
    /\ eventPc = "joined"
    /\ renderPc = "stopped"
    /\ stopAt # None
    /\ waits = stopAt.waits + 1
    /\ draws = stopAt.draws + 1

====
